---- MODULE Spec2Model ----
(***************************************************************************)
(* A model of the scraping-and-archival pipeline of notebook-sources:      *)
(* the reference scraper (backend/core/scraper.py), the archive resolver   *)
(* (backend/core/archive_resolver.py), the scrape batch job and the reset  *)
(* route (backend/api/routes_references.py) and the progress broadcaster   *)
(* (backend/api/routes_progress.py).                                       *)
(***************************************************************************)
EXTENDS Integers, Sequences, FiniteSets, TLC

\* Python's None.
NULL == "None"

\* Python truthiness of an optional string: None and "" are falsy.
Truthy(x) == x \notin {NULL, ""}

\* `a or b` on optional strings.
Or(a, b) == IF Truthy(a) THEN a ELSE b

(***************************************************************************)
(* Bounds of the model.                                                    *)
(***************************************************************************)
\* References stored in the repository: ids 1..NumRefs.
NumRefs == 1
\* Scrape jobs a run dispatches.
MaxJobs == 1
\* Longest reference_ids list of a scrape request.
MaxBatch == 2
\* Websocket channels that may subscribe to a job.
NumChannels == 1
\* Availability polls an aggressive resolution is followed through.
MaxPolls == 2

RefIds == 1..NumRefs
\* An id that names no stored reference.
UnknownId == NumRefs + 1
JobIds == 1..MaxJobs
Channels == 1..NumChannels

(***************************************************************************)
(* Data model (backend/core/models.py).                                    *)
(***************************************************************************)
\* A variant of the enum that has the member the marking loop names.
ReferenceStatus_WithScraping == {"pending", "scraping", "scraped", "failed", "blocked"}

ReferenceStatus == {"pending", "scraped", "failed", "blocked"}

\* The owning page of a reference: two references per page.
PageOf(rid) == (rid + 1) \div 2

Url(rid) == "https://ref/" \o ToString(rid)

\* The stored references whose suspected_paywall flag the parser set: the
\* odd ids.
SuspectedPaywall(rid) == rid % 2 = 1

\* A Reference as the citation parser creates it: the field defaults.
NewReference(rid, paywall) ==
    [id |-> rid, wiki_page_id |-> PageOf(rid), url |-> Url(rid),
     suspected_paywall |-> paywall,
     status |-> "pending", pdf_path |-> NULL, html_path |-> NULL,
     archive_source |-> NULL, archive_timestamp |-> NULL,
     error |-> NULL, scraped_at |-> NULL]

\* datetime.utcnow(): some non-null instant.
NOW == "utcnow"

(***************************************************************************)
(* Archive resolver (backend/core/archive_resolver.py).                    *)
(***************************************************************************)
ArchiveOutcome(success, archive_url, html, source, timestamp, reason) ==
    [success |-> success, archive_url |-> archive_url, html |-> html,
     source |-> source, timestamp |-> timestamp, reason |-> reason]

ARCHIVE_URL == "https://web.archive.org/web/snapshot"
ARCHIVED_HTML == "<html>archived</html>"
LIVE_HTML == "<html>live</html>"

\* What one availability query can meet on the network.
AvailResults ==
    {"index_error",      \* the availability request fails or is not 2xx
     "none",             \* no closest snapshot
     "snapshot",         \* snapshot with timestamp, body fetched
     "snapshot_no_ts",   \* snapshot without timestamp, body fetched
     "snapshot_empty",   \* snapshot whose body is the empty string
     "snapshot_bad_ts",  \* timestamp that strptime rejects
     "fetch_error"}      \* fetching the snapshot fails or is not 2xx

Raised(type, msg) == [raised |-> TRUE, type |-> type, msg |-> msg]
Returned(value) == [raised |-> FALSE, value |-> value]

\* A faulty variant of _check_availability: a snapshot without a timestamp
\* is given one.
CheckAvailability_StampsMissing(a) ==
    CASE a = "index_error" -> Raised("HTTPError", "availability")
      [] a = "none" ->
           Returned(ArchiveOutcome(FALSE, NULL, NULL, NULL, NULL, "no-snapshot"))
      [] a = "fetch_error" -> Raised("HTTPError", "snapshot")
      [] a = "snapshot_bad_ts" -> Raised("ValueError", "timestamp")
      [] a \in {"snapshot", "snapshot_no_ts"} ->
           Returned(ArchiveOutcome(TRUE, ARCHIVE_URL, ARCHIVED_HTML, "wayback", NOW, NULL))
      [] a = "snapshot_empty" ->
           Returned(ArchiveOutcome(TRUE, ARCHIVE_URL, "", "wayback", NOW, NULL))

\* _check_availability: returns an outcome or raises.
CheckAvailability(a) ==
    CASE a = "index_error" -> Raised("HTTPError", "availability")
      [] a = "none" ->
           Returned(ArchiveOutcome(FALSE, NULL, NULL, NULL, NULL, "no-snapshot"))
      [] a = "fetch_error" -> Raised("HTTPError", "snapshot")
      [] a = "snapshot_bad_ts" -> Raised("ValueError", "timestamp")
      [] a = "snapshot" ->
           Returned(ArchiveOutcome(TRUE, ARCHIVE_URL, ARCHIVED_HTML, "wayback", NOW, NULL))
      [] a = "snapshot_no_ts" ->
           Returned(ArchiveOutcome(TRUE, ARCHIVE_URL, ARCHIVED_HTML, "wayback", NULL, NULL))
      [] a = "snapshot_empty" ->
           Returned(ArchiveOutcome(TRUE, ARCHIVE_URL, "", "wayback", NOW, NULL))

\* The poll loop of resolve: one availability check per element of polls,
\* until one succeeds or raises; the budget ends after the last of them.
RECURSIVE PollLoop(_)
PollLoop(polls) ==
    IF polls = <<>>
    THEN Returned(ArchiveOutcome(FALSE, NULL, NULL, NULL, NULL, "wayback-save-timeout"))
    ELSE LET r == CheckAvailability(Head(polls))
         IN  IF r.raised THEN r
             ELSE IF r.value.success THEN r
             ELSE PollLoop(Tail(polls))

\* The body of resolve's try block.
ResolveBody(aggressive, net) ==
    LET first == CheckAvailability(net.avail)
    IN  IF first.raised THEN first
        ELSE IF first.value.success \/ ~aggressive THEN first
        ELSE IF net.save = "error" THEN Raised("ConnectionError", "save")
        ELSE PollLoop(net.polls)

\* resolve: any exception becomes a failed outcome with reason str(exc).
Resolve(aggressive, net) ==
    LET r == ResolveBody(aggressive, net)
    IN  IF r.raised
        THEN ArchiveOutcome(FALSE, NULL, NULL, NULL, NULL, r.msg)
        ELSE r.value

PollSeqs == UNION {[1..n -> AvailResults] : n \in 0..MaxPolls}

NetConditions ==
    [avail : AvailResults, save : {"ok", "error"}, polls : PollSeqs]

\* Every outcome resolve can hand to its caller.
ResolveOutcomesDefault == {Resolve(FALSE, net) : net \in NetConditions}
ResolveOutcomesAggressive == {Resolve(TRUE, net) : net \in NetConditions}
ResolveOutcomes(aggressive) ==
    IF aggressive THEN ResolveOutcomesAggressive ELSE ResolveOutcomesDefault

(***************************************************************************)
(* State.                                                                  *)
(***************************************************************************)
VARIABLES
    db,            \* the repository: the reference rows, by id
    files,         \* LocalFileStorage: the relative paths that hold bytes
    job_page_map,  \* routes_references.job_page_map
    nextJob,       \* the scrape jobs created so far, plus one
    jobs,          \* per scrape job: its request and where job() stands
    tasks,         \* the _do_scrape calls: one per future, and a direct caller
    active,        \* ws_manager.active: per job, the list of websockets
    log,           \* per job: the messages handed to ws_manager.broadcast
    inbox,         \* per websocket: the messages sent to it
    lastReset,     \* the latest reset request and how it ended
    unit,          \* a Scraper.scrape call made directly on a Reference object
    hist,          \* what that call met at each step, in order
    pool,          \* an AsyncBrowserPool and the engine instances it launched
    workers,       \* the tasks that use pool.acquire()
    res,           \* a call of ArchiveResolver.resolve and what it requested
    mgr,           \* a _ConnectionManager, the websockets' inboxes, its latest call
    prog,          \* a GET /progress request: what it reads and what it answers
    pdf,           \* a call of PDFService.html_to_pdf and what it did
    executor       \* the ThreadPoolExecutor of one job() and its futures

serviceVars ==
    <<db, files, job_page_map, nextJob, jobs, tasks, active, log, inbox, lastReset>>

(***************************************************************************)
(* Scraper (backend/core/scraper.py).  A call of scrape is a record: where *)
(* it stands (pc), the Reference object it mutates, and its locals.        *)
(***************************************************************************)
\* Statuses on which _fetch_html falls back to the archive.
AccessDenied == {401, 402, 403, 451}
HttpStatuses == {200, 404, 500} \cup AccessDenied
\* What requests.get of the reference URL can meet: no response at all
\* (connection error, timeout), or a response with a status.
NoResponse == [connected |-> FALSE, status |-> 0]
LiveResponses ==
    {NoResponse} \cup {[connected |-> TRUE, status |-> s] : s \in HttpStatuses}
\* Response.raise_for_status raises on 4xx and 5xx.
RaisesForStatus(status) == status >= 400

\* What html_to_pdf does: the browser renderer persisted the artifact, the
\* text renderer did, or persisting the artifact raised.
PdfResults == {"primary", "fallback", "error"}

\* _raw_path and _pdf_path: jobs/<job_id>/raw/<id>.html, jobs/<job_id>/pdf/<id>.pdf
RawPath(job, ref) == "jobs/" \o job \o "/raw/" \o ToString(ref.id) \o ".html"
PdfPath(job, ref) == "jobs/" \o job \o "/pdf/" \o ToString(ref.id) \o ".pdf"

\* exc.__class__.__name__ + ": " + str(exc)
ErrorMsg(exc) == exc.type \o ": " \o exc.msg

\* An exception, and the absence of one.
Exc(type, msg) == [type |-> type, msg |-> msg]
NoExc == Exc(NULL, NULL)
\* The value of a call that has not returned.
NoReturn == <<>>

\* The status scrape's except handler records.
FailedStatus == "failed"

\* scrape is entered: _fetch_html starts with the archive when the reference
\* is flagged, with the live fetch otherwise.
BeginScrape(ref, aggressive, job) ==
    [pc |-> IF ref.suspected_paywall THEN "fetch" ELSE "live",
     ref |-> ref, aggressive |-> aggressive, job |-> job,
     html |-> NULL, source_url |-> NULL, exc |-> NoExc, ret |-> NoReturn]

\* A faulty variant of the except handler: the message loses the type name.
Fail_WithoutType(c, exc) ==
    [c EXCEPT !.pc = "returned",
              !.ref = [c.ref EXCEPT !.status = FailedStatus, !.error = exc.msg],
              !.exc = NoExc,
              !.ret = <<FALSE, exc.msg>>]

\* The except handler of scrape.
Fail(c, exc) ==
    [c EXCEPT !.pc = "returned",
              !.ref = [c.ref EXCEPT !.status = FailedStatus, !.error = ErrorMsg(exc)],
              !.exc = NoExc,
              !.ret = <<FALSE, ErrorMsg(exc)>>]

\* Whether _fetch_html takes a resolver outcome as the page.
UsesArchive(outcome) == outcome.success /\ Truthy(outcome.html)

FetchedFromArchive(c, outcome) ==
    [c EXCEPT !.pc = "save_raw", !.html = outcome.html,
              !.source_url = Or(outcome.archive_url, c.ref.url), !.exc = NoExc]

\* A faulty variant of step 1: any successful outcome is taken as the page.
ArchiveFirst_AnySuccess(c, outcome) ==
    IF outcome.success THEN FetchedFromArchive(c, outcome)
    ELSE [c EXCEPT !.pc = "live"]

\* _fetch_html step 1: the reference is flagged, the resolver answered.
ArchiveFirst(c, outcome) ==
    IF UsesArchive(outcome) THEN FetchedFromArchive(c, outcome)
    ELSE [c EXCEPT !.pc = "live"]

\* A faulty variant of the status test: 451 is left out.
FallsBackToArchive_Without451(status) == status \in {401, 402, 403}

\* Whether an HTTP error status sends _fetch_html back to the resolver.
FallsBackToArchive(status) == status \in AccessDenied

\* What requests.get followed by raise_for_status raises, if anything.
LiveExc(resp) ==
    IF ~resp.connected THEN Exc("ConnectionError", "get")
    ELSE IF RaisesForStatus(resp.status) THEN Exc("HTTPError", ToString(resp.status))
    ELSE NoExc

\* _fetch_html step 2: the live fetch.  Only an HTTPError is handled, and
\* only an access-denied status sends the call to the resolver.
LiveFetch(c, resp) ==
    IF LiveExc(resp) = NoExc
    THEN [c EXCEPT !.pc = "save_raw", !.html = LIVE_HTML, !.source_url = c.ref.url]
    ELSE IF resp.connected /\ FallsBackToArchive(resp.status)
    THEN [c EXCEPT !.pc = "fallback", !.exc = LiveExc(resp)]
    ELSE Fail(c, LiveExc(resp))

\* _fetch_html step 3: the resolver answered after an access-denied status;
\* without usable HTML the HTTP error is raised again.
ArchiveFallback(c, outcome) ==
    IF UsesArchive(outcome) THEN FetchedFromArchive(c, outcome)
    ELSE Fail(c, c.exc)

\* What save_bytes raises when the write fails, html_to_pdf when both
\* renderers or the write of the artifact fail.
SaveExc(ok) == IF ok THEN NoExc ELSE Exc("OSError", "raw")
PdfExc(result) == IF result = "error" THEN Exc("OSError", "pdf") ELSE NoExc

\* scrape: persist the raw HTML, then record its path.
SaveRaw(c, ok) ==
    IF SaveExc(ok) = NoExc
    THEN [c EXCEPT !.pc = "pdf", !.ref = [c.ref EXCEPT !.html_path = RawPath(c.job, c.ref)]]
    ELSE Fail(c, SaveExc(ok))

\* A faulty variant of the tail of the try block: pdf_path is not recorded.
Scraped_WithoutPdfPath(c) ==
    [c EXCEPT !.pc = "returned",
              !.ref = [c.ref EXCEPT !.scraped_at = NOW, !.status = "scraped"],
              !.ret = <<TRUE, NULL>>]

\* scrape: the tail of the try block once html_to_pdf has returned.
Scraped(c) ==
    LET r1 == [c.ref EXCEPT !.pdf_path = PdfPath(c.job, c.ref),
                            !.scraped_at = NOW,
                            !.status = "scraped"]
        r2 == IF c.source_url # c.ref.url
              THEN [r1 EXCEPT !.archive_source = c.source_url,
                              !.archive_timestamp = NOW]
              ELSE r1
    IN  [c EXCEPT !.pc = "returned", !.ref = r2, !.ret = <<TRUE, NULL>>]

\* A faulty variant: an exception of html_to_pdf is not noticed.
RenderPdf_IgnoresError(c, result) == Scraped(c)

\* scrape: html_to_pdf and what follows it.
RenderPdf(c, result) ==
    IF PdfExc(result) = NoExc THEN Scraped(c)
    ELSE Fail(c, PdfExc(result))

\* The files a step leaves in storage.
FilesAfterSaveRaw(c, ok) == IF ok THEN {RawPath(c.job, c.ref)} ELSE {}
FilesAfterRenderPdf(c, result) ==
    IF result = "error" THEN {} ELSE {PdfPath(c.job, c.ref)}

(***************************************************************************)
(* Repository (backend/infra/repositories/sql_repo.py) and file storage    *)
(* (backend/infra/storage/local_fs.py).                                    *)
(***************************************************************************)
\* The columns of a reference row that scraping and resetting write.
MutableFields ==
    {"status", "pdf_path", "html_path", "archive_source", "archive_timestamp",
     "error", "scraped_at"}

\* Stands for "no Reference object".
NoRef == NewReference(0, FALSE)

\* update_reference: session.add of the detached object, then commit.  The
\* UPDATE sets the columns whose value changed since the object was loaded.
UpdateReference(row, loaded, obj) ==
    [f \in DOMAIN row |->
        IF f \in MutableFields /\ obj[f] # loaded[f] THEN obj[f] ELSE row[f]]

\* The methods LocalFileStorage defines.
StorageMethods == {"save_bytes", "open", "exists"}

(***************************************************************************)
(* Progress broadcaster (backend/api/routes_progress.py).                  *)
(***************************************************************************)
Message(event, rid, status, error, successes, failures) ==
    [event |-> event, reference_id |-> rid, status |-> status, error |-> error,
     successes |-> successes, failures |-> failures]
ProgressUpdate(rid) == Message("progress_update", rid, "scraping", NULL, 0, 0)
ReferenceDone(rid, status, error) == Message("reference_done", rid, status, error, 0, 0)
JobComplete(successes, failures) == Message("job_complete", 0, NULL, NULL, successes, failures)

\* broadcast sends to the websockets of list(active[job]) in order; failing
\* is the position of the first send that raises, 0 when none does.  The
\* websockets before it got the message, the ones after it did not.
SendFailures(j) == 0..Len(active[j])
Delivered(j, failing) ==
    {active[j][k] : k \in {n \in 1..Len(active[j]) : failing = 0 \/ n < failing}}
BroadcastRaises(failing) == failing # 0

\* The effect of one call of ws_manager.broadcast.
Broadcast(j, msg, failing) ==
    /\ log' = [log EXCEPT ![j] = Append(@, msg)]
    /\ inbox' = [c \in Channels |->
                    IF c \in Delivered(j, failing) THEN Append(inbox[c], msg)
                    ELSE inbox[c]]

\* connect: accept, then register the websocket for the job.
Connect(j, c) ==
    /\ \A k \in JobIds : \A n \in 1..Len(active[k]) : active[k][n] # c
    /\ active' = [active EXCEPT ![j] = Append(@, c)]
    /\ UNCHANGED <<db, files, job_page_map, nextJob, jobs, tasks, log, inbox,
                   lastReset, unit, hist,
                   pool, workers, res, mgr, prog, pdf, executor>>

\* ws_progress on WebSocketDisconnect: the websocket leaves the job's list.
Disconnect(j, c) ==
    /\ \E n \in 1..Len(active[j]) : active[j][n] = c
    /\ active' = [active EXCEPT ![j] = SelectSeq(@, LAMBDA x : x # c)]
    /\ UNCHANGED <<db, files, job_page_map, nextJob, jobs, tasks, log, inbox,
                   lastReset, unit, hist,
                   pool, workers, res, mgr, prog, pdf, executor>>

(***************************************************************************)
(* The scrape batch (backend/api/routes_references.py, scrape_references). *)
(***************************************************************************)
\* settings.max_concurrent_scrapes: the size of the batch's thread pool.
max_concurrent_scrapes == 4

\* `d[k] = v` on a dict.
DictSet(d, k, v) == [x \in DOMAIN d \cup {k} |-> IF x = k THEN v ELSE d[x]]

\* r1 with the fields of r2 written over it.
Merge(r1, r2) ==
    [f \in DOMAIN r1 \cup DOMAIN r2 |-> IF f \in DOMAIN r2 THEN r2[f] ELSE r1[f]]

\* get_reference finds a row.
Exists(rid) == rid \in DOMAIN db

\* The reference_ids a request can carry.
IdLists == UNION {[1..n -> RefIds \cup {UnknownId}] : n \in 0..MaxBatch}

NoJob == [pc |-> "none", ids |-> <<>>, aggressive |-> FALSE, idx |-> 0, raised |-> NoExc]

\* The future of position i of job j's reference_ids; the direct caller.
DirectTask == <<0, 0>>
JobTasks(j) == {<<j, i>> : i \in 1..Len(jobs[j].ids)}
TaskIds == (JobIds \X (1..MaxBatch)) \cup {DirectTask}
DIRECT_JOB == "direct"

IdleTask ==
    [pc |-> "idle", rid |-> 0, ref |-> NoRef, loaded |-> NoRef,
     aggressive |-> FALSE, job |-> NULL, html |-> NULL, source_url |-> NULL,
     exc |-> NoExc, ret |-> NoReturn, raised |-> NoExc]

\* A future that is done: _do_scrape returned ret, or raised.
Finished(rid, ret, raised) ==
    [IdleTask EXCEPT !.pc = "finished", !.rid = rid, !.ret = ret, !.raised = raised]

\* The pcs at which a _do_scrape call occupies a pool thread.
RunningPcs == {"fetch", "live", "fallback", "save_raw", "pdf", "returned"}
Running(j) == {t \in JobTasks(j) : tasks[t].pc \in RunningPcs}

\* A faulty variant: the request does not map the job.
MapJob_NotMapped(j, ids) == job_page_map

\* The first lines of scrape_references and of job(): the job is mapped to
\* the page of the first reference, when that reference exists.
MapJob(j, ids) ==
    IF ids # <<>> /\ Exists(ids[1])
    THEN DictSet(job_page_map, j, db[ids[1]].wiki_page_id)
    ELSE job_page_map

\* POST /scrape: a job id is drawn, the job is mapped and enqueued.
ScrapeRequest(ids, aggressive) ==
    /\ nextJob <= MaxJobs
    /\ job_page_map' = MapJob(nextJob, ids)
    /\ jobs' = [jobs EXCEPT ![nextJob] =
                   [pc |-> "queued", ids |-> ids, aggressive |-> aggressive,
                    idx |-> 1, raised |-> NoExc]]
    /\ nextJob' = nextJob + 1
    /\ UNCHANGED <<db, files, tasks, active, log, inbox, lastReset, unit, hist,
                   pool, workers, res, mgr, prog, pdf, executor>>

\* job() starts on a background thread: the scraper is built, the job mapped.
J_Start(j) ==
    /\ jobs[j].pc = "queued"
    /\ job_page_map' = MapJob(j, jobs[j].ids)
    /\ jobs' = [jobs EXCEPT ![j].pc = "mark"]
    /\ UNCHANGED <<db, files, nextJob, tasks, active, log, inbox, lastReset, unit, hist,
                   pool, workers, res, mgr, prog, pdf, executor>>

\* The status the marking loop assigns: ReferenceStatus.scraping.
MarkStatus == "scraping"

\* Attribute access on the enum class: a name that is no member raises.
IsMember(enum, name) == name \in enum

JobRaised(j, exc) == [jobs EXCEPT ![j].pc = "raised", ![j].raised = exc]

\* One iteration of the marking loop.
J_Mark(j) ==
    /\ jobs[j].pc = "mark"
    /\ jobs[j].idx <= Len(jobs[j].ids)
    /\ LET rid == jobs[j].ids[jobs[j].idx]
       IN  IF ~Exists(rid)
           THEN /\ jobs' = [jobs EXCEPT ![j].idx = @ + 1]
                /\ UNCHANGED <<db, log, inbox>>
           ELSE IF ~IsMember(ReferenceStatus, MarkStatus)
           THEN /\ jobs' = JobRaised(j, Exc("AttributeError", MarkStatus))
                /\ UNCHANGED <<db, log, inbox>>
           ELSE \E stored \in BOOLEAN, failing \in SendFailures(j) :
                   IF ~stored
                   THEN /\ jobs' = JobRaised(j, Exc("OperationalError", "update"))
                        /\ UNCHANGED <<db, log, inbox>>
                   ELSE /\ db' = [db EXCEPT ![rid].status = MarkStatus]
                        /\ Broadcast(j, ProgressUpdate(rid), failing)
                        /\ jobs' = IF BroadcastRaises(failing)
                                   THEN JobRaised(j, Exc("SendError", "send_json"))
                                   ELSE [jobs EXCEPT ![j].idx = @ + 1]
    /\ UNCHANGED <<files, job_page_map, nextJob, tasks, active, lastReset, unit, hist,
                   pool, workers, res, mgr, prog, pdf, executor>>

\* The pool is created and one _do_scrape future is submitted per id.
J_Submit(j) ==
    /\ jobs[j].pc = "mark"
    /\ jobs[j].idx > Len(jobs[j].ids)
    /\ jobs' = [jobs EXCEPT ![j].pc = "collect"]
    /\ tasks' = [t \in TaskIds |->
                    IF t \in JobTasks(j)
                    THEN [IdleTask EXCEPT !.pc = "queued", !.rid = jobs[j].ids[t[2]]]
                    ELSE tasks[t]]
    /\ UNCHANGED <<db, files, job_page_map, nextJob, active, log, inbox,
                   lastReset, unit, hist,
                   pool, workers, res, mgr, prog, pdf, executor>>

\* What the as_completed loop reads from a finished future: an exception of
\* the future counts as a failure with str(exc).
FutureResult(task) ==
    IF task.raised # NoExc THEN <<FALSE, task.raised.msg>> ELSE task.ret

StatusVal(success) == IF success THEN "scraped" ELSE "failed"

\* One iteration of the as_completed loop: a finished future is taken and
\* reference_done is broadcast.  When the broadcast raises, the with block
\* is left, which first waits for the futures still running.
J_Collect(j, t) ==
    /\ jobs[j].pc = "collect"
    /\ t \in JobTasks(j)
    /\ tasks[t].pc = "finished"
    /\ \E failing \in SendFailures(j) :
           /\ Broadcast(j, ReferenceDone(tasks[t].rid,
                                         StatusVal(FutureResult(tasks[t])[1]),
                                         FutureResult(tasks[t])[2]), failing)
           /\ jobs' = IF BroadcastRaises(failing)
                      THEN [jobs EXCEPT ![j].pc = "aborting",
                                        ![j].raised = Exc("SendError", "send_json")]
                      ELSE jobs
    /\ tasks' = [tasks EXCEPT ![t].pc = "consumed"]
    /\ UNCHANGED <<db, files, job_page_map, nextJob, active, lastReset, unit, hist,
                   pool, workers, res, mgr, prog, pdf, executor>>

\* The pool's shutdown has waited for every future: the exception leaves job().
J_Abort(j) ==
    /\ jobs[j].pc = "aborting"
    /\ \A t \in JobTasks(j) : tasks[t].pc \in {"finished", "consumed"}
    /\ jobs' = [jobs EXCEPT ![j].pc = "raised"]
    /\ UNCHANGED <<db, files, job_page_map, nextJob, tasks, active, log, inbox,
                   lastReset, unit, hist,
                   pool, workers, res, mgr, prog, pdf, executor>>

\* The references of a page, as list_references returns them.
ListReferences(page) == {rid \in DOMAIN db : db[rid].wiki_page_id = page}
CountStatus(rids, status) == Cardinality({rid \in rids : db[rid].status = status})

\* The summary message of a job, from the rows as they are now.
Summary(j) ==
    IF j \in DOMAIN job_page_map
    THEN JobComplete(CountStatus(ListReferences(job_page_map[j]), "scraped"),
                     CountStatus(ListReferences(job_page_map[j]), "failed"))
    ELSE JobComplete(0, 0)

\* Every future was taken: the summary is computed and broadcast.
J_Summary(j) ==
    /\ jobs[j].pc = "collect"
    /\ \A t \in JobTasks(j) : tasks[t].pc = "consumed"
    /\ \E failing \in SendFailures(j) :
           /\ Broadcast(j, Summary(j), failing)
           /\ jobs' = IF BroadcastRaises(failing)
                      THEN JobRaised(j, Exc("SendError", "send_json"))
                      ELSE [jobs EXCEPT ![j].pc = "done"]
    /\ UNCHANGED <<db, files, job_page_map, nextJob, tasks, active, lastReset, unit, hist,
                   pool, workers, res, mgr, prog, pdf, executor>>

(***************************************************************************)
(* _do_scrape: the body of one future, and of a caller that runs the same  *)
(* three calls (get_reference, Scraper.scrape, update_reference) on its    *)
(* own, outside a batch.                                                   *)
(***************************************************************************)
\* What the live fetch meets in the service runs.
ServiceResponses ==
    {[connected |-> TRUE, status |-> s] : s \in {200, 403, 404}}

\* The call of scraper.scrape on the object that get_reference returned.
StartScrape(rid, aggressive, job) ==
    [Merge(IdleTask, BeginScrape(db[rid], aggressive, job))
         EXCEPT !.rid = rid, !.loaded = db[rid]]

\* A pool thread takes a submitted future and enters _do_scrape.
T_Begin(j, t) ==
    /\ t \in JobTasks(j)
    /\ tasks[t].pc = "queued"
    /\ Cardinality(Running(j)) < max_concurrent_scrapes
    /\ tasks' = [tasks EXCEPT ![t] =
                    IF Exists(@.rid)
                    THEN StartScrape(@.rid, jobs[j].aggressive, ToString(j))
                    ELSE Finished(@.rid, <<FALSE, "not-found">>, NoExc)]
    /\ UNCHANGED <<db, files, job_page_map, nextJob, jobs, active, log, inbox,
                   lastReset, unit, hist,
                   pool, workers, res, mgr, prog, pdf, executor>>

\* A caller outside any batch loads a stored reference and scrapes it.
D_Call(rid) ==
    /\ tasks[DirectTask].pc = "idle"
    /\ Exists(rid)
    /\ tasks' = [tasks EXCEPT ![DirectTask] = StartScrape(rid, FALSE, DIRECT_JOB)]
    /\ UNCHANGED <<db, files, job_page_map, nextJob, jobs, active, log, inbox,
                   lastReset, unit, hist,
                   pool, workers, res, mgr, prog, pdf, executor>>

T_ArchiveFirst(t) ==
    /\ tasks[t].pc = "fetch"
    /\ \E outcome \in ResolveOutcomes(tasks[t].aggressive) :
           tasks' = [tasks EXCEPT ![t] = ArchiveFirst(@, outcome)]
    /\ UNCHANGED <<db, files, job_page_map, nextJob, jobs, active, log, inbox,
                   lastReset, unit, hist,
                   pool, workers, res, mgr, prog, pdf, executor>>

T_LiveFetch(t) ==
    /\ tasks[t].pc = "live"
    /\ \E resp \in ServiceResponses :
           tasks' = [tasks EXCEPT ![t] = LiveFetch(@, resp)]
    /\ UNCHANGED <<db, files, job_page_map, nextJob, jobs, active, log, inbox,
                   lastReset, unit, hist,
                   pool, workers, res, mgr, prog, pdf, executor>>

T_ArchiveFallback(t) ==
    /\ tasks[t].pc = "fallback"
    /\ \E outcome \in ResolveOutcomes(tasks[t].aggressive) :
           tasks' = [tasks EXCEPT ![t] = ArchiveFallback(@, outcome)]
    /\ UNCHANGED <<db, files, job_page_map, nextJob, jobs, active, log, inbox,
                   lastReset, unit, hist,
                   pool, workers, res, mgr, prog, pdf, executor>>

T_SaveRaw(t) ==
    /\ tasks[t].pc = "save_raw"
    /\ \E ok \in BOOLEAN :
           /\ tasks' = [tasks EXCEPT ![t] = SaveRaw(@, ok)]
           /\ files' = files \cup FilesAfterSaveRaw(tasks[t], ok)
    /\ UNCHANGED <<db, job_page_map, nextJob, jobs, active, log, inbox,
                   lastReset, unit, hist,
                   pool, workers, res, mgr, prog, pdf, executor>>

T_RenderPdf(t) ==
    /\ tasks[t].pc = "pdf"
    /\ \E result \in PdfResults :
           /\ tasks' = [tasks EXCEPT ![t] = RenderPdf(@, result)]
           /\ files' = files \cup FilesAfterRenderPdf(tasks[t], result)
    /\ UNCHANGED <<db, job_page_map, nextJob, jobs, active, log, inbox,
                   lastReset, unit, hist,
                   pool, workers, res, mgr, prog, pdf, executor>>

\* scrape has returned: update_reference stores the object, or raises.  The
\* future then holds _do_scrape's return value or the exception; the direct
\* caller is through either way.
T_Update(t) ==
    /\ tasks[t].pc = "returned"
    /\ \E stored \in BOOLEAN :
           /\ db' = IF stored
                    THEN [db EXCEPT ![tasks[t].rid] =
                             UpdateReference(@, tasks[t].loaded, tasks[t].ref)]
                    ELSE db
           /\ tasks' = [tasks EXCEPT ![t] =
                           IF t = DirectTask THEN IdleTask
                           ELSE IF stored THEN Finished(@.rid, @.ret, NoExc)
                           ELSE Finished(@.rid, NoReturn,
                                         Exc("OperationalError", "update"))]
    /\ UNCHANGED <<files, job_page_map, nextJob, jobs, active, log, inbox,
                   lastReset, unit, hist,
                   pool, workers, res, mgr, prog, pdf, executor>>

(***************************************************************************)
(* DELETE /references/{reference_id} (reset_reference_status).             *)
(***************************************************************************)
\* The fields reset assigns, on the object it loaded.
ResetFields(ref) ==
    [ref EXCEPT !.status = "pending", !.pdf_path = NULL, !.html_path = NULL,
                !.archive_source = NULL, !.archive_timestamp = NULL,
                !.error = NULL, !.scraped_at = NULL]

\* The stored paths reset hands to storage.delete.
PathsToDelete(ref) ==
    {p \in {ref.pdf_path, ref.html_path} : Truthy(p)}

\* Calling a method on the storage object: a name it does not define raises.
HasMethod(name) == name \in StorageMethods

ResetEnded(rid, outcome) == [rid |-> rid, outcome |-> outcome]
NoReset == ResetEnded(0, "none")

Reset(rid) ==
    /\ IF ~Exists(rid)
       THEN /\ lastReset' = ResetEnded(rid, "not_found")
            /\ UNCHANGED <<db, files>>
       ELSE IF PathsToDelete(db[rid]) # {} /\ ~HasMethod("delete")
       THEN /\ lastReset' = ResetEnded(rid, "AttributeError")
            /\ UNCHANGED <<db, files>>
       ELSE /\ files' = files \ PathsToDelete(db[rid])
            /\ db' = [db EXCEPT ![rid] = UpdateReference(@, @, ResetFields(@))]
            /\ lastReset' = ResetEnded(rid, "ok")
    /\ UNCHANGED <<job_page_map, nextJob, jobs, tasks, active, log, inbox, unit, hist,
                   pool, workers, res, mgr, prog, pdf, executor>>

(***************************************************************************)
(* Browser pool (backend/core/browser_pool.py).  Engine instances are      *)
(* numbered in the order they are launched.  start and stop hold the       *)
(* pool's lock from their first to their last statement; a task that uses  *)
(* acquire() can be interleaved with others where it awaits.               *)
(***************************************************************************)
\* AsyncBrowserPool(size): the instances the pool is built for.
PoolSize == 2
\* The tasks that use the pool.
NumWorkers == 2
\* Instances launched in one run of the model.
MaxLaunch == 4

Workers == 1..NumWorkers

\* How the latest call on the pool went: the operation, how it ended, and
\* the instances it called close() on.
Ended_(op, outcome, closeCalls) ==
    [op |-> op, outcome |-> outcome, closeCalls |-> closeCalls]
NoCalls == Ended_("none", "none", {})

\* __init__, together with what the model keeps about the instances: how
\* many were launched, which are no longer usable, how often the Playwright
\* driver was stopped, and how the latest call went.
NewPool ==
    [started |-> FALSE, playwright |-> "none", browsers |-> <<>>,
     available |-> <<>>, launched |-> 0, gone |-> {}, pwStops |-> 0,
     last |-> NoCalls]

\* The instances that n successful launches create.
Launched(p, n) == [i \in 1..n |-> p.launched + i]

\* How a start can go: 0, every launch succeeds; k in 1..size, the k-th
\* launch raises; size + 1, starting Playwright raises.
StartFailures == 0..(PoolSize + 1)

\* A faulty variant of start: the started flag is not consulted.
Start_Relaunches(p, failAt) ==
    LET n == IF failAt = 0 THEN PoolSize ELSE IF failAt > PoolSize THEN 0 ELSE failAt - 1
    IN  [p EXCEPT !.playwright = "running",
                  !.browsers = @ \o Launched(p, n),
                  !.available = @ \o Launched(p, n),
                  !.launched = @ + n,
                  !.started = @ \/ (failAt = 0),
                  !.last = Ended_("start", IF failAt = 0 THEN (IF p.started THEN "noop" ELSE "ok")
                                          ELSE "raised", {})]

\* start.
Start(p, failAt) ==
    IF p.started THEN [p EXCEPT !.last = Ended_("start", "noop", {})]
    ELSE IF failAt = PoolSize + 1 THEN [p EXCEPT !.last = Ended_("start", "raised", {})]
    ELSE LET n == IF failAt = 0 THEN PoolSize ELSE failAt - 1
         IN  [p EXCEPT !.playwright = "running",
                       !.browsers = @ \o Launched(p, n),
                       !.available = @ \o Launched(p, n),
                       !.launched = @ + n,
                       !.started = (failAt = 0),
                       !.last = Ended_("start", IF failAt = 0 THEN "ok" ELSE "raised", {})]

Range(seq) == {seq[i] : i \in 1..Len(seq)}

\* stop: close() is called on every browser of the list, closeFails are the
\* ones whose close raises and is logged; then the driver is stopped (a
\* failure is logged), which ends every instance it launched.
Stop(p, closeFails) ==
    IF ~p.started THEN [p EXCEPT !.last = Ended_("stop", "noop", {})]
    ELSE [p EXCEPT !.gone = (@ \cup (Range(p.browsers) \ closeFails)) \cup 1..p.launched,
                   !.playwright = "stopped",
                   !.pwStops = @ + 1,
                   !.browsers = <<>>,
                   !.started = FALSE,
                   !.last = Ended_("stop", "ok", Range(p.browsers))]

IdleWorker == [pc |-> "idle", browser |-> 0]

\* The ways the body of `async with pool.acquire()` can end: normally, by an
\* Exception, or by an exception that is no Exception (a cancellation).
BodyExits == {"ok", "Exception", "BaseException"}

\* A faulty variant of get(): the instance stays in the queue.
Take_Peek(p) == p

\* The precondition of acquire, and a variant that lets every call pass.
Started_Unchecked(p) == TRUE
Started(p) == p.started

\* self._available.get() on a queue that has an instance.
Take(p) == [p EXCEPT !.available = Tail(@)]
\* self._available.put(browser)
Put(p, browser) == [p EXCEPT !.available = Append(@, browser)]

\* Whether launching from the pool's Playwright object can succeed.
CanLaunch(p) == p.playwright = "running" /\ p.launched < MaxLaunch

poolOthers == <<serviceVars, unit, hist, res, mgr, prog, pdf, executor>>

P_Start ==
    /\ pool.started \/ pool.launched + PoolSize <= MaxLaunch
    /\ \E failAt \in StartFailures : pool' = Start(pool, failAt)
    /\ UNCHANGED <<workers, poolOthers>>

P_Stop ==
    /\ \E closeFails \in SUBSET Range(pool.browsers) :
           pool' = Stop(pool, closeFails)
    /\ UNCHANGED <<workers, poolOthers>>

\* acquire is entered: the precondition, then get() if an instance is there,
\* else the task waits in get().
W_Acquire(w) ==
    /\ workers[w].pc = "idle"
    /\ IF ~Started(pool)
       THEN /\ workers' = workers
            /\ pool' = [pool EXCEPT !.last = Ended_("acquire", "RuntimeError", {})]
       ELSE IF pool.available = <<>>
       THEN /\ workers' = [workers EXCEPT ![w].pc = "waiting"]
            /\ pool' = [pool EXCEPT !.last = Ended_("acquire", "waits", {})]
       ELSE /\ workers' = [workers EXCEPT ![w] =
                              [pc |-> "held", browser |-> Head(pool.available)]]
            /\ pool' = [Take(pool) EXCEPT !.last = Ended_("acquire", "yields", {})]
    /\ UNCHANGED poolOthers

\* A task waiting in get() is handed an instance that was put.
W_Get(w) ==
    /\ workers[w].pc = "waiting"
    /\ pool.available # <<>>
    /\ workers' = [workers EXCEPT ![w] = [pc |-> "held", browser |-> Head(pool.available)]]
    /\ pool' = [Take(pool) EXCEPT !.last = Ended_("acquire", "yields", {})]
    /\ UNCHANGED poolOthers

\* The body ends.  Normally: the instance is put back.  By an Exception: the
\* handler starts.  By anything else: neither branch runs.
W_Exit(w) ==
    /\ workers[w].pc = "held"
    /\ \E exit \in BodyExits :
          CASE exit = "ok" ->
                 /\ pool' = [Put(pool, workers[w].browser)
                                EXCEPT !.last = Ended_("release", "ok", {})]
                 /\ workers' = [workers EXCEPT ![w] = IdleWorker]
            [] exit = "Exception" ->
                 /\ pool' = [pool EXCEPT !.last = Ended_("body", "Exception", {})]
                 /\ workers' = [workers EXCEPT ![w].pc = "closing"]
            [] exit = "BaseException" ->
                 /\ pool' = [pool EXCEPT !.last = Ended_("release", "raised:BaseException", {})]
                 /\ workers' = [workers EXCEPT ![w] = IdleWorker]
    /\ UNCHANGED poolOthers

\* The handler closes the instance; a failing close is logged.
W_Close(w) ==
    /\ workers[w].pc = "closing"
    /\ \E closes \in BOOLEAN :
          pool' = [pool EXCEPT !.gone = IF closes THEN @ \cup {workers[w].browser} ELSE @,
                               !.last = Ended_("close", IF closes THEN "ok" ELSE "raised",
                                               {workers[w].browser})]
    /\ workers' = [workers EXCEPT ![w].pc = "launching"]
    /\ UNCHANGED poolOthers

\* The handler launches a replacement if there is a Playwright object, puts
\* the replacement (or, when the launch raised, the instance it has) into
\* the queue, and re-raises.
W_Replace(w) ==
    /\ workers[w].pc = "launching"
    /\ \E launches \in BOOLEAN :
          /\ launches => CanLaunch(pool)
          /\ pool' = [(IF launches /\ pool.playwright # "none"
                       THEN Put([pool EXCEPT !.launched = @ + 1], pool.launched + 1)
                       ELSE Put(pool, workers[w].browser))
                         EXCEPT !.last = Ended_("release", "raised:Exception", {})]
    /\ workers' = [workers EXCEPT ![w] = IdleWorker]
    /\ UNCHANGED poolOthers

PoolInit ==
    /\ pool = NewPool
    /\ workers = [w \in Workers |-> IdleWorker]

\* A resolver call that was never made.
(***************************************************************************)
(* ArchiveResolver.resolve, step by step.  A call is a record: where it    *)
(* stands (pc), its arguments, what the first and the latest availability  *)
(* check met, the requests it has issued, the polls it has made, the       *)
(* seconds gone since the deadline was set, the exception its handler      *)
(* caught and the stage that raised it, and what it returned.              *)
(***************************************************************************)
NoArchiveOutcome == ArchiveOutcome(FALSE, NULL, NULL, NULL, NULL, NULL)

NoResolve ==
    [pc |-> "idle", url |-> NULL, paywalled |-> FALSE, aggressive |-> FALSE,
     first |-> NULL, met |-> NULL, requests |-> <<>>, elapsed |-> 0,
     polls |-> 0, caught |-> NoExc, stage |-> NULL, outcome |-> NoArchiveOutcome]

\* The requests one _check_availability issues: the availability query,
\* and the fetch of the snapshot when the index names one.
WAYBACK_AVAIL == "https://archive.org/wayback/available"
AvailRequest(url) == WAYBACK_AVAIL \o "?url=" \o url
SaveRequest(url) == "https://web.archive.org/save/" \o url

CheckRequests(url, a) ==
    IF a \in {"index_error", "none"} THEN <<AvailRequest(url)>>
    ELSE <<AvailRequest(url), ARCHIVE_URL>>

\* The URLs resolve is called with: those of the references.
ResolveUrls == {Url(rid) : rid \in 1..UnknownId}

\* A faulty variant of the handler: only HTTP errors are turned into an
\* outcome, anything else leaves resolve.
ResolveExcept_HttpOnly(r, exc, stage) ==
    IF exc.type = "HTTPError"
    THEN [r EXCEPT !.pc = "returned", !.caught = exc, !.stage = stage,
                   !.outcome = ArchiveOutcome(FALSE, NULL, NULL, NULL, NULL, exc.msg)]
    ELSE [r EXCEPT !.pc = "raised", !.stage = stage]

\* except Exception as exc: return ArchiveOutcome(success=False, reason=str(exc))
ResolveExcept(r, exc, stage) ==
    [r EXCEPT !.pc = "returned", !.caught = exc, !.stage = stage,
              !.outcome = ArchiveOutcome(FALSE, NULL, NULL, NULL, NULL, exc.msg)]

ResolveReturn(r, outcome) == [r EXCEPT !.pc = "returned", !.outcome = outcome]

resolverOthers == <<serviceVars, unit, hist, pool, workers, mgr, prog, pdf, executor>>

\* resolve is called.
R_Call ==
    /\ res.pc \in {"idle", "returned"}
    /\ \E url \in ResolveUrls, paywalled \in BOOLEAN, aggressive \in BOOLEAN :
           res' = [NoResolve EXCEPT !.pc = "check", !.url = url,
                                    !.paywalled = paywalled, !.aggressive = aggressive]
    /\ UNCHANGED resolverOthers

\* The first _check_availability.
R_Check ==
    /\ res.pc = "check"
    /\ \E a \in AvailResults :
           LET c == CheckAvailability(a)
               r == [res EXCEPT !.first = a, !.met = a,
                                !.requests = @ \o CheckRequests(res.url, a)]
           IN  res' = IF c.raised THEN ResolveExcept(r, Exc(c.type, c.msg), "check")
                      ELSE IF c.value.success \/ ~r.aggressive THEN ResolveReturn(r, c.value)
                      ELSE [r EXCEPT !.pc = "save"]
    /\ UNCHANGED resolverOthers

\* Aggressive mode: the save request.
R_Save ==
    /\ res.pc = "save"
    /\ \E save \in {"ok", "error"} :
           LET r == [res EXCEPT !.requests = Append(@, SaveRequest(res.url))]
           IN  res' = IF save = "error"
                      THEN ResolveExcept(r, Exc("ConnectionError", "save"), "save")
                      ELSE [r EXCEPT !.pc = "poll"]
    /\ UNCHANGED resolverOthers

\* deadline = time.time() + 120; time.sleep(15); requests.get(..., timeout=30)
POLL_BUDGET == 120
POLL_SLEEP == 15
REQUEST_TIMEOUT == 30
\* The seconds one availability check takes: none to speak of, or the
\* whole timeout.
CheckSeconds == {0, REQUEST_TIMEOUT}

\* A faulty variant of the loop body: a poll that succeeds is not returned.
PollResult_KeepsPolling(r, c) ==
    IF c.raised THEN ResolveExcept(r, Exc(c.type, c.msg), "poll")
    ELSE r

\* The loop body after the check: return on success, go round otherwise.
PollResult(r, c) ==
    IF c.raised THEN ResolveExcept(r, Exc(c.type, c.msg), "poll")
    ELSE IF c.value.success THEN ResolveReturn(r, c.value)
    ELSE r

\* One turn of the poll loop, entered while time.time() < deadline: sleep,
\* then _check_availability.
R_Poll ==
    /\ res.pc = "poll"
    /\ res.elapsed < POLL_BUDGET
    /\ \E a \in AvailResults, d \in CheckSeconds :
           res' = PollResult([res EXCEPT !.polls = @ + 1, !.met = a,
                                         !.elapsed = @ + POLL_SLEEP + d,
                                         !.requests = @ \o CheckRequests(res.url, a)],
                             CheckAvailability(a))
    /\ UNCHANGED resolverOthers

\* The deadline has passed: the loop ends.
R_Timeout ==
    /\ res.pc = "poll"
    /\ res.elapsed >= POLL_BUDGET
    /\ res' = ResolveReturn(res,
                 ArchiveOutcome(FALSE, NULL, NULL, NULL, NULL, "wayback-save-timeout"))
    /\ UNCHANGED resolverOthers

ResolverNext == R_Call \/ R_Check \/ R_Save \/ R_Poll \/ R_Timeout

PoolNext ==
    \/ P_Start
    \/ P_Stop
    \/ \E w \in Workers : W_Acquire(w)
    \/ \E w \in Workers : W_Get(w)
    \/ \E w \in Workers : W_Exit(w)
    \/ \E w \in Workers : W_Close(w)
    \/ \E w \in Workers : W_Replace(w)

(***************************************************************************)
(* _ConnectionManager on its own (backend/api/routes_progress.py): active  *)
(* is a dict from job id to the list of its websockets.  The inbox of a    *)
(* websocket is what send_json delivered to it; events are numbered in the *)
(* order of the broadcasts.                                                *)
(***************************************************************************)
NumMgrJobs == 2
NumSockets == 3
MaxBroadcasts == 2
MgrJobs == 1..NumMgrJobs
Sockets == 1..NumSockets

MgrCall(op, job, ws, outcome, snapshot, bad) ==
    [op |-> op, job |-> job, ws |-> ws, outcome |-> outcome,
     snapshot |-> snapshot, bad |-> bad]
NoMgrCall == MgrCall("none", 0, 0, "none", <<>>, {})

NewManager ==
    [active |-> <<>>, inbox |-> [ws \in Sockets |-> <<>>], sent |-> 0, last |-> NoMgrCall]

\* self.active.get(job_id, [])
ActiveOf(m, j) == IF j \in DOMAIN m.active THEN m.active[j] ELSE <<>>

\* connect: accept, then self.active.setdefault(job_id, []).append(websocket)
ManagerConnect(m, j, ws, accepts) ==
    IF accepts
    THEN [m EXCEPT !.active = DictSet(@, j, Append(ActiveOf(m, j), ws)),
                   !.last = MgrCall("connect", j, ws, "ok", <<>>, {})]
    ELSE [m EXCEPT !.last = MgrCall("connect", j, ws, "raised", <<>>, {})]

\* list.remove(x): the list without the first occurrence of x.
Remove(list, x) ==
    LET i == CHOOSE i \in 1..Len(list) :
                 list[i] = x /\ \A k \in 1..(i - 1) : list[k] # x
    IN  SubSeq(list, 1, i - 1) \o SubSeq(list, i + 1, Len(list))

\* disconnect: self.active.get(job_id, []).remove(websocket); remove raises
\* ValueError when the websocket is not in the list.
ManagerDisconnect(m, j, ws) ==
    IF ws \in Range(ActiveOf(m, j))
    THEN [m EXCEPT !.active = DictSet(@, j, Remove(ActiveOf(m, j), ws)),
                   !.last = MgrCall("disconnect", j, ws, "ok", <<>>, {})]
    ELSE [m EXCEPT !.last = MgrCall("disconnect", j, ws, "ValueError", <<>>, {})]

\* The position of the first websocket of the list whose send_json raises,
\* one past the end when none does.
FirstBad(list, bad) ==
    IF \E i \in 1..Len(list) : list[i] \in bad
    THEN CHOOSE i \in 1..Len(list) :
             list[i] \in bad /\ \A k \in 1..(i - 1) : list[k] \notin bad
    ELSE Len(list) + 1

\* The number of times event e is in an inbox.
Copies(box, e) == Cardinality({i \in 1..Len(box) : box[i] = e})

\* broadcast: for ws in list(self.active.get(job_id, [])): await
\* ws.send_json(message).  bad are the websockets whose send raises; the
\* first of them ends the loop and the call.
ManagerBroadcast(m, j, bad) ==
    LET list == ActiveOf(m, j)
        event == m.sent + 1
        stop == FirstBad(list, bad)
    IN  [m EXCEPT !.inbox = [ws \in Sockets |->
                                m.inbox[ws] \o
                                  [i \in 1..Cardinality({k \in 1..(stop - 1) : list[k] = ws})
                                      |-> event]],
                  !.sent = event,
                  !.last = MgrCall("broadcast", j, 0,
                                   IF stop <= Len(list) THEN "raised" ELSE "ok",
                                   list, bad)]

mgrOthers == <<serviceVars, unit, hist, pool, workers, res, prog, pdf, executor>>

\* ws_progress: a new websocket connects for a job.
M_Connect(j, ws) ==
    /\ \A k \in DOMAIN mgr.active : ws \notin Range(mgr.active[k])
    /\ \E accepts \in BOOLEAN : mgr' = ManagerConnect(mgr, j, ws, accepts)
    /\ UNCHANGED mgrOthers

\* disconnect is called for a job and a websocket.
M_Disconnect(j, ws) ==
    /\ mgr' = ManagerDisconnect(mgr, j, ws)
    /\ UNCHANGED mgrOthers

\* broadcast is called for a job.
M_Broadcast(j) ==
    /\ mgr.sent < MaxBroadcasts
    /\ \E bad \in SUBSET Range(ActiveOf(mgr, j)) : mgr' = ManagerBroadcast(mgr, j, bad)
    /\ UNCHANGED mgrOthers

ManagerNext ==
    \/ \E j \in MgrJobs, ws \in Sockets : M_Connect(j, ws)
    \/ \E j \in MgrJobs, ws \in Sockets : M_Disconnect(j, ws)
    \/ \E j \in MgrJobs : M_Broadcast(j)

(***************************************************************************)
(* GET /progress/{job_id} (backend/api/routes_progress.py, get_progress).  *)
(* A request reads job_page_map and the reference table.  The percentage   *)
(* is a float in the code; here it is the exact fraction num / den, which  *)
(* compares with 0 and 100 as the float does.                              *)
(***************************************************************************)
MaxRows == 3
ProgPages == {1, 2}
ProgJobs == {1, 2}

\* The reference tables as parsing leaves them: up to MaxRows rows, each of
\* a page, pending.
ProgRow == [wiki_page_id : ProgPages, status : {"pending"}]
ProgTables == UNION {[1..n -> ProgRow] : n \in 0..MaxRows}
\* job_page_map: no job, or job 1 mapped to a page.
ProgMaps == {<<>>} \cup {[j \in {1} |-> page] : page \in ProgPages}

ProgressResponse(code, num, den, items) ==
    [code |-> code, num |-> num, den |-> den, items |-> items]
NoAnswer == ProgressResponse(0, 0, 1, <<>>)
\* HTTPException(status_code=404, detail="Job not found")
JobNotFound == ProgressResponse(404, 0, 1, <<>>)

\* repo.list_references(page_id) on a table.
RowsOf(table, page) == SelectSeq(table, LAMBDA r : r.wiki_page_id = page)

\* A faulty variant of the test: blocked is left out.
IsComplete_WithoutBlocked(status) == status \in {"scraped", "failed"}

\* r.status in {ReferenceStatus.scraped, ReferenceStatus.failed, ReferenceStatus.blocked}
IsComplete(status) == status \in {"scraped", "failed", "blocked"}

\* A faulty variant of the guard against division by zero.
Total_PlusOne(n) == n + 1

\* total = len(refs) or 1
Total(n) == IF n = 0 THEN 1 ELSE n

\* get_progress.
GetProgress(map, table, job) ==
    IF job \notin DOMAIN map THEN JobNotFound
    ELSE LET refs == RowsOf(table, map[job])
             completed == Cardinality({i \in 1..Len(refs) : IsComplete(refs[i].status)})
         IN  ProgressResponse(200, completed * 100, Total(Len(refs)),
                              [i \in 1..Len(refs) |-> refs[i].status])

NoProgress ==
    [pc |-> "idle", map |-> <<>>, table |-> <<>>, job |-> 0, answer |-> NoAnswer]

progOthers == <<serviceVars, unit, hist, pool, workers, res, mgr, pdf, executor>>

\* A progress request for a job is answered.
G_Progress(job) ==
    /\ prog.pc = "idle"
    /\ prog' = [prog EXCEPT !.pc = "answered", !.job = job,
                            !.answer = GetProgress(prog.map, prog.table, job)]
    /\ UNCHANGED progOthers

\* The status of a row changes (a scrape ends, a reset), after which a new
\* request can be made.
G_StatusChange(i, status) ==
    /\ i \in 1..Len(prog.table)
    /\ prog.table[i].status # status
    /\ prog' = [prog EXCEPT !.pc = "idle", !.table[i].status = status,
                            !.job = 0, !.answer = NoAnswer]
    /\ UNCHANGED progOthers

ProgressNext ==
    \/ \E job \in ProgJobs : G_Progress(job)
    \/ \E i \in 1..MaxRows, status \in ReferenceStatus : G_StatusChange(i, status)

(***************************************************************************)
(* PDFService.html_to_pdf (backend/core/pdf_service.py), step by step.  A  *)
(* call is a record: where it stands (pc), whether Playwright is           *)
(* importable and a pool is configured, the path asked for, the paths the  *)
(* storage wrote, the page of the pooled render and the close calls on it, *)
(* who closed a browser, the exception pending inside _render_with_pool,   *)
(* how the primary and the fallback path ended and at which stage the      *)
(* primary raised, and what the call returned.                             *)
(***************************************************************************)
RenderPaths == {"a.pdf", "b.pdf"}
\* rel_path.with_suffix(".html")
TmpHtmlPath(path) == IF path = "a.pdf" THEN "a.html" ELSE "b.html"

NoRender ==
    [pc |-> "idle", has_playwright |-> FALSE, pooled |-> FALSE, path |-> NULL,
     saved |-> {}, page |-> "none", pageCloses |-> 0, closedBy |-> {},
     error |-> FALSE, primary |-> "no", stage |-> NULL, fallback |-> "no",
     ret |-> NULL]

\* html_to_pdf is entered.
BeginRender(path, has_playwright, pooled) ==
    [NoRender EXCEPT !.pc = IF has_playwright THEN "primary" ELSE "fallback",
                     !.has_playwright = has_playwright, !.pooled = pooled,
                     !.path = path]

\* A faulty variant of the handler of html_to_pdf: the exception of the
\* primary path leaves the call.
PrimaryRaised_Propagates(c, stage) ==
    [c EXCEPT !.pc = "raised", !.primary = "raised", !.stage = stage, !.error = FALSE]

\* except Exception: pass, and on to the placeholder renderer.
PrimaryRaised(c, stage) ==
    [c EXCEPT !.pc = "fallback", !.primary = "raised", !.stage = stage, !.error = FALSE]

renderOthers == <<serviceVars, unit, hist, pool, workers, res, mgr, prog, executor>>

PDF_Call ==
    /\ pdf.pc \in {"idle", "returned", "raised"}
    /\ \E path \in RenderPaths, has_playwright \in BOOLEAN, pooled \in BOOLEAN :
           pdf' = BeginRender(path, has_playwright, pooled)
    /\ UNCHANGED renderOthers

\* _render_pdf_playwright: the HTML is saved next to the target.
PDF_SaveTmp ==
    /\ pdf.pc = "primary"
    /\ \E saves \in BOOLEAN :
           pdf' = IF saves
                  THEN [pdf EXCEPT !.pc = IF pdf.pooled THEN "acquire" ELSE "sync",
                                   !.saved = @ \cup {TmpHtmlPath(pdf.path)}]
                  ELSE PrimaryRaised(pdf, "save_tmp")
    /\ UNCHANGED renderOthers

\* Without a pool: a browser of its own is launched, used and closed; any
\* of these can raise.
PDF_Sync ==
    /\ pdf.pc = "sync"
    /\ \E renders \in BOOLEAN :
           pdf' = IF renders
                  THEN [pdf EXCEPT !.pc = "save", !.closedBy = @ \cup {"renderer"}]
                  ELSE PrimaryRaised(pdf, "sync")
    /\ UNCHANGED renderOthers

\* _render_with_pool: async with self._pool.acquire() as browser.
PDF_Acquire ==
    /\ pdf.pc = "acquire"
    /\ \E acquires \in BOOLEAN :
           pdf' = IF acquires THEN [pdf EXCEPT !.pc = "new_page"]
                  ELSE PrimaryRaised(pdf, "acquire")
    /\ UNCHANGED renderOthers

\* page = await browser.new_page(), before the try.
PDF_NewPage ==
    /\ pdf.pc = "new_page"
    /\ \E opens \in BOOLEAN :
           pdf' = IF opens THEN [pdf EXCEPT !.pc = "goto", !.page = "open"]
                  ELSE [pdf EXCEPT !.pc = "release", !.error = TRUE, !.stage = "new_page"]
    /\ UNCHANGED renderOthers

\* await page.goto(...)
PDF_Goto ==
    /\ pdf.pc = "goto"
    /\ \E loads \in BOOLEAN :
           pdf' = IF loads THEN [pdf EXCEPT !.pc = "pdf"]
                  ELSE [pdf EXCEPT !.pc = "close_page", !.error = TRUE, !.stage = "goto"]
    /\ UNCHANGED renderOthers

\* await page.pdf(...)
PDF_Pdf ==
    /\ pdf.pc = "pdf"
    /\ \E prints \in BOOLEAN :
           pdf' = IF prints THEN [pdf EXCEPT !.pc = "close_page"]
                  ELSE [pdf EXCEPT !.pc = "close_page", !.error = TRUE, !.stage = "pdf"]
    /\ UNCHANGED renderOthers

\* finally: await page.close(), which can raise as well.
PDF_ClosePage ==
    /\ pdf.pc = "close_page"
    /\ \E closes \in BOOLEAN :
           pdf' = [pdf EXCEPT !.pc = "release", !.page = "closed",
                              !.pageCloses = @ + 1,
                              !.error = @ \/ ~closes,
                              !.stage = IF ~pdf.error /\ ~closes THEN "close_page" ELSE @]
    /\ UNCHANGED renderOthers

\* The scope of acquire is left: with an exception the pool closes the
\* instance and the exception reaches html_to_pdf, otherwise the bytes are
\* returned.
PDF_Release ==
    /\ pdf.pc = "release"
    /\ pdf' = IF pdf.error
              THEN PrimaryRaised([pdf EXCEPT !.closedBy = @ \cup {"pool"}], pdf.stage)
              ELSE [pdf EXCEPT !.pc = "save"]
    /\ UNCHANGED renderOthers

\* return self._storage.save_bytes(rel_path, pdf_bytes), in the primary path.
PDF_Save ==
    /\ pdf.pc = "save"
    /\ \E saves \in BOOLEAN :
           pdf' = IF saves
                  THEN [pdf EXCEPT !.pc = "returned", !.primary = "ok",
                                   !.saved = @ \cup {pdf.path}, !.ret = pdf.path]
                  ELSE PrimaryRaised(pdf, "save")
    /\ UNCHANGED renderOthers

\* _render_placeholder_pdf, then save_bytes; either can raise, and nothing
\* catches it.
PDF_Fallback ==
    /\ pdf.pc = "fallback"
    /\ \E renders \in BOOLEAN, saves \in BOOLEAN :
           pdf' = IF renders /\ saves
                  THEN [pdf EXCEPT !.pc = "returned", !.fallback = "ok",
                                   !.saved = @ \cup {pdf.path}, !.ret = pdf.path]
                  ELSE [pdf EXCEPT !.pc = "raised", !.fallback = "raised"]
    /\ UNCHANGED renderOthers

RenderNext ==
    \/ PDF_Call
    \/ PDF_SaveTmp
    \/ PDF_Sync
    \/ PDF_Acquire
    \/ PDF_NewPage
    \/ PDF_Goto
    \/ PDF_Pdf
    \/ PDF_ClosePage
    \/ PDF_Release
    \/ PDF_Save
    \/ PDF_Fallback

(***************************************************************************)
(* The thread pool of job() (routes_references.py:108-118) on its own,     *)
(* with reference lists longer than the pool is wide.  job() reaches the   *)
(* pool only when its marking loop met no stored reference (J_Mark raises  *)
(* otherwise), so the ids of these lists are ids get_reference finds no    *)
(* row for, and _do_scrape returns after get_reference.  A future is new   *)
(* (not submitted yet), queued, running (a pool thread is inside           *)
(* _do_scrape), finished, or consumed by the as_completed loop.  threads   *)
(* are the pool threads spawned so far, idle the count of the pool's idle  *)
(* semaphore.                                                              *)
(***************************************************************************)
\* The longest reference_ids list of these runs.
ExecBatch == 5

\* Ids that name no stored reference.
NoRowIds == {UnknownId, UnknownId + 1}
ExecLists == UNION {[1..n -> NoRowIds] : n \in 0..ExecBatch}

NoExecutor ==
    [pc |-> "idle", ids |-> <<>>, futures |-> <<>>, threads |-> 0, idle |-> 0,
     next |-> 1]

\* The futures a pool thread is running _do_scrape for.
Busy(e) == {i \in 1..Len(e.futures) : e.futures[i] = "running"}
Queued(e) == {i \in 1..Len(e.futures) : e.futures[i] = "queued"}

\* A faulty variant of the pool: a thread is spawned whatever their number.
SpawnsThread_Unbounded(e) == TRUE

\* ThreadPoolExecutor(max_workers=settings.max_concurrent_scrapes): submit
\* spawns a thread only while there are fewer than max_workers.
SpawnsThread(e) == e.threads < max_concurrent_scrapes

\* pool.submit(_do_scrape, rid): the work item is queued; an idle thread is
\* counted on if there is one, else a thread is spawned if that is allowed.
Submit(e) ==
    LET q == [e EXCEPT !.futures[e.next] = "queued", !.next = @ + 1,
                       !.pc = IF e.next = Len(e.ids) THEN "collect" ELSE "submit"]
    IN  IF e.idle > 0 THEN [q EXCEPT !.idle = @ - 1]
        ELSE IF SpawnsThread(e) THEN [q EXCEPT !.threads = @ + 1]
        ELSE q

executorOthers == <<serviceVars, unit, hist, pool, workers, res, mgr, prog, pdf>>

\* with ThreadPoolExecutor(...) as pool: the block is entered.
X_Enter ==
    /\ executor.pc \in {"idle", "done"}
    /\ \E ids \in ExecLists :
           executor' = [NoExecutor EXCEPT
                           !.pc = IF ids = <<>> THEN "collect" ELSE "submit",
                           !.ids = ids,
                           !.futures = [i \in 1..Len(ids) |-> "new"]]
    /\ UNCHANGED executorOthers

\* One turn of the dict comprehension: the next id of the list is submitted.
X_Submit ==
    /\ executor.pc = "submit"
    /\ executor' = Submit(executor)
    /\ UNCHANGED executorOthers

\* A pool thread that runs nothing takes the oldest queued work item and
\* enters _do_scrape: get_reference.
X_Take(i) ==
    /\ i \in Queued(executor)
    /\ \A k \in Queued(executor) : i <= k
    /\ Cardinality(Busy(executor)) < executor.threads
    /\ executor' = [executor EXCEPT !.futures[i] = "running"]
    /\ UNCHANGED executorOthers

\* get_reference found no row: _do_scrape returns (rid, False, "not-found"),
\* and the thread is idle again.
X_Return(i) ==
    /\ i \in Busy(executor)
    /\ executor' = [executor EXCEPT !.futures[i] = "finished", !.idle = @ + 1]
    /\ UNCHANGED executorOthers

\* as_completed hands a finished future to the loop of job().
X_Collect(i) ==
    /\ executor.pc = "collect"
    /\ i \in 1..Len(executor.futures)
    /\ executor.futures[i] = "finished"
    /\ executor' = [executor EXCEPT !.futures[i] = "consumed"]
    /\ UNCHANGED executorOthers

\* Every future was taken: the with block is left and the threads end.
X_Exit ==
    /\ executor.pc = "collect"
    /\ \A i \in 1..Len(executor.futures) : executor.futures[i] = "consumed"
    /\ executor' = [executor EXCEPT !.pc = "done", !.threads = 0, !.idle = 0]
    /\ UNCHANGED executorOthers

ExecutorNext ==
    \/ X_Enter
    \/ X_Submit
    \/ \E i \in 1..ExecBatch : X_Take(i)
    \/ \E i \in 1..ExecBatch : X_Return(i)
    \/ \E i \in 1..ExecBatch : X_Collect(i)
    \/ X_Exit

(***************************************************************************)
(* The service: requests, batches, scrapes, resets and websockets.         *)
(***************************************************************************)
\* A scrape call that was never made.
NoCall == [BeginScrape(NoRef, FALSE, NULL) EXCEPT !.pc = "idle"]

vars == <<db, files, job_page_map, nextJob, jobs, tasks, active, log, inbox,
          lastReset, unit, hist,
                   pool, workers, res, mgr, prog, pdf, executor>>

ServiceInit ==
    /\ db = [rid \in RefIds |-> NewReference(rid, SuspectedPaywall(rid))]
    /\ files = {}
    /\ job_page_map = <<>>
    /\ nextJob = 1
    /\ jobs = [j \in JobIds |-> NoJob]
    /\ tasks = [t \in TaskIds |-> IdleTask]
    /\ active = [j \in JobIds |-> <<>>]
    /\ log = [j \in JobIds |-> <<>>]
    /\ inbox = [c \in Channels |-> <<>>]
    /\ lastReset = NoReset

Init ==
    /\ ServiceInit
    /\ unit = NoCall
    /\ hist = <<>>
    /\ PoolInit
    /\ res = NoResolve
    /\ mgr = NewManager
    /\ prog = NoProgress
    /\ pdf = NoRender
    /\ executor = NoExecutor

Next ==
    \/ \E ids \in IdLists, aggressive \in BOOLEAN : ScrapeRequest(ids, aggressive)
    \/ \E j \in JobIds : J_Start(j)
    \/ \E j \in JobIds : J_Mark(j)
    \/ \E j \in JobIds : J_Submit(j)
    \/ \E j \in JobIds, t \in TaskIds : T_Begin(j, t)
    \/ \E rid \in RefIds : D_Call(rid)
    \/ \E t \in TaskIds : T_ArchiveFirst(t)
    \/ \E t \in TaskIds : T_LiveFetch(t)
    \/ \E t \in TaskIds : T_ArchiveFallback(t)
    \/ \E t \in TaskIds : T_SaveRaw(t)
    \/ \E t \in TaskIds : T_RenderPdf(t)
    \/ \E t \in TaskIds : T_Update(t)
    \/ \E j \in JobIds, t \in TaskIds : J_Collect(j, t)
    \/ \E j \in JobIds : J_Abort(j)
    \/ \E j \in JobIds : J_Summary(j)
    \/ \E rid \in RefIds \cup {UnknownId} : Reset(rid)
    \/ \E j \in JobIds, c \in Channels : Connect(j, c)
    \/ \E j \in JobIds, c \in Channels : Disconnect(j, c)

Spec == Init /\ [][Next]_vars

(***************************************************************************)
(* Scraper.scrape called on a Reference object, step by step, with a       *)
(* record of what each step met.  The service stands still meanwhile.      *)
(***************************************************************************)
UNIT_JOB == "unit"

NoOutcome == ArchiveOutcome(FALSE, NULL, NULL, NULL, NULL, NULL)

\* One entry of hist: the step, and the resolver outcome, the HTTP response
\* or the exception it met.
Met(step, outcome, resp, exc) ==
    [step |-> step, outcome |-> outcome, resp |-> resp, exc |-> exc]

UnitInit ==
    /\ ServiceInit
    /\ \E paywall \in BOOLEAN, aggressive \in BOOLEAN :
           unit = BeginScrape(NewReference(1, paywall), aggressive, UNIT_JOB)
    /\ hist = <<>>
    /\ PoolInit
    /\ res = NoResolve
    /\ mgr = NewManager
    /\ prog = NoProgress
    /\ pdf = NoRender
    /\ executor = NoExecutor

U_ArchiveFirst ==
    /\ unit.pc = "fetch"
    /\ \E outcome \in ResolveOutcomes(unit.aggressive) :
           /\ unit' = ArchiveFirst(unit, outcome)
           /\ hist' = Append(hist, Met("resolve_first", outcome, NoResponse, NoExc))
    /\ UNCHANGED <<serviceVars, pool, workers, res, mgr, prog, pdf, executor>>

U_LiveFetch ==
    /\ unit.pc = "live"
    /\ \E resp \in LiveResponses :
           /\ unit' = LiveFetch(unit, resp)
           /\ hist' = Append(hist, Met("get", NoOutcome, resp, LiveExc(resp)))
    /\ UNCHANGED <<serviceVars, pool, workers, res, mgr, prog, pdf, executor>>

U_ArchiveFallback ==
    /\ unit.pc = "fallback"
    /\ \E outcome \in ResolveOutcomes(unit.aggressive) :
           /\ unit' = ArchiveFallback(unit, outcome)
           /\ hist' = Append(hist, Met("resolve_fallback", outcome, NoResponse, NoExc))
    /\ UNCHANGED <<serviceVars, pool, workers, res, mgr, prog, pdf, executor>>

U_SaveRaw ==
    /\ unit.pc = "save_raw"
    /\ \E ok \in BOOLEAN :
           /\ unit' = SaveRaw(unit, ok)
           /\ hist' = Append(hist, Met("save_raw", NoOutcome, NoResponse, SaveExc(ok)))
    /\ UNCHANGED <<serviceVars, pool, workers, res, mgr, prog, pdf, executor>>

U_RenderPdf ==
    /\ unit.pc = "pdf"
    /\ \E result \in PdfResults :
           /\ unit' = RenderPdf(unit, result)
           /\ hist' = Append(hist, Met("pdf", NoOutcome, NoResponse, PdfExc(result)))
    /\ UNCHANGED <<serviceVars, pool, workers, res, mgr, prog, pdf, executor>>

\* The caller scrapes the same object once more.
U_ScrapeAgain ==
    /\ unit.pc = "returned"
    /\ \E aggressive \in BOOLEAN :
           unit' = BeginScrape(unit.ref, aggressive, UNIT_JOB)
    /\ hist' = <<>>
    /\ UNCHANGED <<serviceVars, pool, workers, res, mgr, prog, pdf, executor>>

UnitNext ==
    \/ U_ArchiveFirst
    \/ U_LiveFetch
    \/ U_ArchiveFallback
    \/ U_SaveRaw
    \/ U_RenderPdf
    \/ U_ScrapeAgain

SpecScraper == UnitInit /\ [][UnitNext]_vars

(***************************************************************************)
(* The browser pool with its tasks; the service stands still.              *)
(***************************************************************************)
SpecPoolInit ==
    /\ ServiceInit
    /\ unit = NoCall
    /\ hist = <<>>
    /\ PoolInit
    /\ res = NoResolve
    /\ mgr = NewManager
    /\ prog = NoProgress
    /\ pdf = NoRender
    /\ executor = NoExecutor

SpecPool == SpecPoolInit /\ [][PoolNext]_vars

SpecResolverInit ==
    /\ ServiceInit
    /\ unit = NoCall
    /\ hist = <<>>
    /\ PoolInit
    /\ res = NoResolve
    /\ mgr = NewManager
    /\ prog = NoProgress
    /\ pdf = NoRender
    /\ executor = NoExecutor

SpecResolver == SpecResolverInit /\ [][ResolverNext]_vars

SpecManagerInit ==
    /\ ServiceInit
    /\ unit = NoCall
    /\ hist = <<>>
    /\ PoolInit
    /\ res = NoResolve
    /\ mgr = NewManager
    /\ prog = NoProgress
    /\ pdf = NoRender
    /\ executor = NoExecutor

SpecManager == SpecManagerInit /\ [][ManagerNext]_vars

SpecProgressInit ==
    /\ ServiceInit
    /\ unit = NoCall
    /\ hist = <<>>
    /\ PoolInit
    /\ res = NoResolve
    /\ mgr = NewManager
    /\ \E map \in ProgMaps, table \in ProgTables :
           prog = [NoProgress EXCEPT !.map = map, !.table = table]
    /\ pdf = NoRender
    /\ executor = NoExecutor

SpecProgress == SpecProgressInit /\ [][ProgressNext]_vars

SpecRenderInit ==
    /\ ServiceInit
    /\ unit = NoCall
    /\ hist = <<>>
    /\ PoolInit
    /\ res = NoResolve
    /\ mgr = NewManager
    /\ prog = NoProgress
    /\ pdf = NoRender
    /\ executor = NoExecutor

SpecRender == SpecRenderInit /\ [][RenderNext]_vars

SpecExecutorInit ==
    /\ ServiceInit
    /\ unit = NoCall
    /\ hist = <<>>
    /\ PoolInit
    /\ res = NoResolve
    /\ mgr = NewManager
    /\ prog = NoProgress
    /\ pdf = NoRender
    /\ executor = NoExecutor

SpecExecutor == SpecExecutorInit /\ [][ExecutorNext]_vars

\* The thread that runs resolve goes on running its loop.
SpecResolverLive == SpecResolver /\ WF_vars(R_Poll \/ R_Timeout)

(***************************************************************************)
(* Properties of Scraper.scrape, checked under SpecScraper.                *)
(***************************************************************************)
LastMet == hist[Len(hist)]

\* A resolver outcome that succeeded and carries a non-empty page.
SucceededWithHtml(outcome) ==
    outcome.success /\ outcome.html # NULL /\ outcome.html # ""

\* The exception that left the try block of scrape, if any: the one of the
\* step the call stopped at, the HTTP error when the fallback gave no page.
Escaped ==
    IF hist = <<>> THEN NoExc
    ELSE CASE LastMet.step = "get" ->
                IF LastMet.exc.type = "HTTPError"
                      /\ LastMet.resp.status \in {401, 402, 403, 451}
                THEN NoExc ELSE LastMet.exc
           [] LastMet.step = "resolve_fallback" ->
                IF SucceededWithHtml(LastMet.outcome) THEN NoExc
                ELSE hist[Len(hist) - 1].exc
           [] LastMet.step \in {"save_raw", "pdf"} -> LastMet.exc
           [] OTHER -> NoExc

\* C5: scrape never raises.  Whenever an exception leaves the fetch, the
\* persistence of the raw HTML or the rendering, the call has returned
\* (False, message) with message = type name + ": " + text of the exception,
\* and the reference is failed with that message as its error; a call that
\* returns after no such exception returns (True, None) and the reference
\* is scraped.
C5_ScrapeNeverRaises ==
    /\ Escaped # NoExc =>
          /\ unit.pc = "returned"
          /\ unit.ret = <<FALSE, Escaped.type \o ": " \o Escaped.msg>>
          /\ unit.ref.status = "failed"
          /\ unit.ref.error = Escaped.type \o ": " \o Escaped.msg
    /\ unit.pc = "returned" /\ Escaped = NoExc =>
          /\ unit.ret = <<TRUE, NULL>>
          /\ unit.ref.status = "scraped"

\* C5 witness: a call on a reference that an earlier call had scraped has
\* returned after rendering raised.
C5_Witness ==
    /\ unit.pc = "returned"
    /\ LastMet.step = "pdf"
    /\ LastMet.exc # NoExc
    /\ unit.ref.scraped_at # NULL
    /\ unit.ref.status = "failed"

FirstMet == hist[1]
NoLiveFetch == \A i \in 1..Len(hist) : hist[i].step # "get"

\* C6 as stated: for a flagged reference the resolver is tried first; when
\* it succeeds its HTML is the page, no live fetch is made and the call ends
\* with the archive URL as archive_source; when it fails the live fetch
\* follows.
C6_AsStated ==
    unit.ref.suspected_paywall /\ hist # <<>> =>
       /\ FirstMet.step = "resolve_first"
       /\ FirstMet.outcome.success =>
             /\ NoLiveFetch
             /\ unit.html = FirstMet.outcome.html
             /\ unit.pc = "returned" => unit.ref.archive_source = FirstMet.outcome.archive_url
       /\ ~FirstMet.outcome.success /\ Len(hist) >= 2 => hist[2].step = "get"

\* C6: for a flagged reference the resolver is tried before any live fetch.
\* When it succeeds with a non-empty page, that page is used, no live fetch
\* is made, and a call that returns success has recorded the archive URL as
\* archive_source.  Otherwise (failure, or success with an empty page) the
\* live fetch of the reference URL is the next step.
C6_ArchiveFirst ==
    unit.ref.suspected_paywall /\ hist # <<>> =>
       /\ FirstMet.step = "resolve_first"
       /\ SucceededWithHtml(FirstMet.outcome) =>
             /\ NoLiveFetch
             /\ unit.html = FirstMet.outcome.html
             /\ unit.source_url = FirstMet.outcome.archive_url
             /\ unit.pc = "returned" /\ unit.ret[1] =>
                   unit.ref.archive_source = FirstMet.outcome.archive_url
       /\ ~SucceededWithHtml(FirstMet.outcome) =>
             /\ Len(hist) = 1 => unit.pc = "live"
             /\ Len(hist) >= 2 => hist[2].step = "get"

\* C6 witness: a flagged reference was scraped from the archive.
C6_Witness ==
    /\ unit.ref.suspected_paywall
    /\ unit.pc = "returned"
    /\ unit.ret = <<TRUE, NULL>>
    /\ FirstMet.step = "resolve_first"
    /\ SucceededWithHtml(FirstMet.outcome)
    /\ unit.ref.archive_source = ARCHIVE_URL

Fallbacks == {k \in 1..Len(hist) : hist[k].step = "resolve_fallback"}

HttpErrorMsg(status) == "HTTPError: " \o ToString(status)

EndedFailedWith(msg) ==
    /\ unit.pc = "returned"
    /\ unit.ret = <<FALSE, msg>>
    /\ unit.ref.status = "failed"
    /\ unit.ref.error = msg

\* What C7 asks of the live fetch met at position i, with `succeeded`
\* deciding when the resolver's answer counts as a success.
AfterHttpError(i, succeeded(_)) ==
    LET st == hist[i].resp.status
    IN  IF st \in {401, 402, 403, 451}
        THEN /\ Len(hist) = i => unit.pc = "fallback"
             /\ Len(hist) > i =>
                   /\ hist[i + 1].step = "resolve_fallback"
                   /\ Cardinality(Fallbacks) = 1
                   /\ IF succeeded(hist[i + 1].outcome)
                      THEN /\ unit.html = hist[i + 1].outcome.html
                           /\ Len(hist) = i + 1 => unit.pc = "save_raw"
                      ELSE /\ Len(hist) = i + 1
                           /\ EndedFailedWith(HttpErrorMsg(st))
        ELSE /\ Len(hist) = i
             /\ Fallbacks = {}
             /\ EndedFailedWith(HttpErrorMsg(st))

HttpFailures == {i \in 1..Len(hist) : hist[i].step = "get" /\ hist[i].exc.type = "HTTPError"}

Succeeded(outcome) == outcome.success

\* C7 as stated: after a live fetch that failed with 401, 402, 403 or 451
\* the resolver is consulted exactly once and its HTML is used if it
\* succeeds, else the HTTP error is the failure of the call; after any other
\* HTTP failure the resolver is not consulted and the error is the failure.
C7_AsStated == \A i \in HttpFailures : AfterHttpError(i, Succeeded)

\* C7: after a live fetch that failed with 401, 402, 403 or 451 the
\* resolver is consulted exactly once more; its page is used if it succeeds
\* with a non-empty page; otherwise the original HTTP error is the failure
\* of the call and the reference ends failed.  After any other HTTP failure
\* status the resolver is not consulted and the error is the failure.
C7_FallbackOnAccessDenied == \A i \in HttpFailures : AfterHttpError(i, SucceededWithHtml)

\* C7 witness: a 451 was answered from the archive and the call went on to
\* scrape the reference.
C7_Witness ==
    /\ unit.pc = "returned"
    /\ unit.ret = <<TRUE, NULL>>
    /\ \E i \in HttpFailures :
          /\ hist[i].resp.status = 451
          /\ Len(hist) > i
          /\ SucceededWithHtml(hist[i + 1].outcome)

(***************************************************************************)
(* Properties of the service, checked under Spec.                          *)
(***************************************************************************)
\* job() is over: it returned, or an exception left it.
Ended(j) == jobs[j].pc \in {"done", "raised"}

\* The stored references a batch targets.
Targeted(j) == {jobs[j].ids[i] : i \in 1..Len(jobs[j].ids)} \cap RefIds

Positions(j, event, rid) ==
    {i \in 1..Len(log[j]) : log[j][i].event = event /\ log[j][i].reference_id = rid}
DonePositions(j) == {i \in 1..Len(log[j]) : log[j][i].event = "reference_done"}
CompletePositions(j) == {i \in 1..Len(log[j]) : log[j][i].event = "job_complete"}

\* C1 as stated: a batch that is over has broadcast "scraping" for every
\* targeted reference before its first reference_done, a reference_done for
\* every targeted reference, and job_complete after all of them.
C1_AsStated ==
    \A j \in JobIds : Ended(j) =>
       /\ \A rid \in Targeted(j) :
             /\ Positions(j, "progress_update", rid) # {}
             /\ Positions(j, "reference_done", rid) # {}
             /\ \A i \in Positions(j, "progress_update", rid) :
                   \A d \in DonePositions(j) : i < d
       /\ CompletePositions(j) # {}
       /\ \A c \in CompletePositions(j) : \A d \in DonePositions(j) : d < c

TheStatuses == {"pending", "scraping", "scraped", "failed", "blocked"}

C3_AsStated ==
    \A j \in JobIds :
       /\ jobs[j].pc \notin {"aborting", "raised"}
       /\ jobs[j].pc = "done" =>
             \A rid \in Targeted(j) :
                /\ db[rid].status \in {"scraped", "failed"}
                /\ Positions(j, "reference_done", rid) # {}

\* C4 as stated: a dispatched batch whose job() is over has broadcast
\* job_complete.
C4_AsStated ==
    \A j \in JobIds :
       jobs[j].pc \in {"done", "raised"} =>
          \E i \in 1..Len(log[j]) : log[j][i].event = "job_complete"

\* C8: a reference whose status is scraped has its raw-HTML path and its
\* artifact path set, as a stored row and as the object a scrape works on.
C8_ScrapedHasPaths ==
    /\ \A rid \in RefIds :
          db[rid].status = "scraped" =>
             db[rid].html_path # NULL /\ db[rid].pdf_path # NULL
    /\ \A t \in TaskIds :
          tasks[t].ref.status = "scraped" =>
             tasks[t].ref.html_path # NULL /\ tasks[t].ref.pdf_path # NULL

\* C8 witness: after a batch and a reset were served, a stored reference is
\* scraped, with both paths and both files.
C8_Witness ==
    /\ \E j \in JobIds : Ended(j)
    /\ lastReset # NoReset
    /\ \E rid \in RefIds :
          /\ db[rid].status = "scraped"
          /\ db[rid].html_path \in files
          /\ db[rid].pdf_path \in files

\* C9 as stated: a stored reference becomes scraped or failed only from
\* scraping, and no step moves it from another status back to pending or to
\* blocked other than a reset.
C9_AsStated ==
    [][\A rid \in RefIds :
          /\ db'[rid].status # db[rid].status /\ db'[rid].status \in {"scraped", "failed"}
                => db[rid].status = "scraping"
          /\ db'[rid].status # db[rid].status /\ db'[rid].status \in {"pending", "blocked"}
                => lastReset' # lastReset]_vars

\* C10 as stated: a reset of a stored reference completes and leaves it
\* pending with paths, archive fields, error and scraped_at cleared and its
\* files gone from storage; a reset of an unknown id reports not-found and
\* changes neither rows nor files.
C10_AsStated ==
    [][lastReset' # lastReset =>
          IF lastReset'.rid \in RefIds
          THEN /\ lastReset'.outcome = "ok"
               /\ db'[lastReset'.rid] = ResetFields(db[lastReset'.rid])
               /\ files' \cap PathsToDelete(db[lastReset'.rid]) = {}
          ELSE /\ lastReset'.outcome = "not_found"
               /\ db' = db
               /\ files' = files]_vars

\* The counts a summary of job j has to carry: the references of the job's
\* page that are scraped, and those that are failed, in the rows as given.
PageCounts(j, rows) ==
    IF j \in DOMAIN job_page_map
    THEN <<Cardinality({rid \in RefIds : rows[rid].wiki_page_id = job_page_map[j]
                                          /\ rows[rid].status = "scraped"}),
           Cardinality({rid \in RefIds : rows[rid].wiki_page_id = job_page_map[j]
                                          /\ rows[rid].status = "failed"})>>
    ELSE <<0, 0>>

\* C11 as stated: the step that ends a batch is the broadcast of a
\* job_complete whose successes and failures are the numbers of scraped and
\* of failed references of the job's page at that moment; and a batch that
\* targeted a stored reference leaves it scraped, or failed with an error
\* message.
C11_AsStated ==
    [][\A j \in JobIds :
          ~Ended(j) /\ Ended(j)' =>
             /\ Len(log'[j]) = Len(log[j]) + 1
             /\ log'[j][Len(log'[j])].event = "job_complete"
             /\ <<log'[j][Len(log'[j])].successes, log'[j][Len(log'[j])].failures>>
                   = PageCounts(j, db')
             /\ \A rid \in Targeted(j) :
                   \/ db'[rid].status = "scraped"
                   \/ db'[rid].status = "failed" /\ db'[rid].error # NULL]_vars

\* C38 as stated: a stored reference with status scraped has no error
\* message; and when a successful scrape is stored, the row names an archive
\* source only if the page of that scrape came from an archive URL.
C38_AsStated ==
    /\ [](\A rid \in DOMAIN db : db[rid].status = "scraped" => db[rid].error = NULL)
    /\ [][\A t \in TaskIds :
             /\ tasks[t].pc = "returned"
             /\ tasks[t].ref.status = "scraped"
             /\ tasks'[t].pc # "returned"
             /\ db' # db
             => (db'[tasks[t].rid].archive_source # NULL
                    => tasks[t].source_url # tasks[t].ref.url)]_vars

C40_AsStated ==
    [][\A j \in JobIds :
          /\ ~Ended(j) /\ Ended(j)'
          /\ Targeted(j) # {}
          /\ \A rid \in Targeted(j) : db'[rid].status \in {"scraped", "failed"}
          => /\ Len(log'[j]) = Len(log[j]) + 1
             /\ log'[j][Len(log'[j])].event = "job_complete"
             /\ log'[j][Len(log'[j])].successes + log'[j][Len(log'[j])].failures
                   >= Cardinality(Targeted(j))]_vars

(***************************************************************************)
(* Properties of the browser pool, checked under SpecPool.                 *)
(***************************************************************************)
\* The latest step was a call of op on the pool.
Called(op) == pool'.last.op = op /\ pool' # pool

\* C12: a start that succeeds launches exactly size instances and appends
\* all of them to the availability queue; a start on a started pool launches
\* nothing and leaves the queue, the list and the started flag as they were.
C12_StartCreatesSize ==
    [][Called("start") =>
          /\ pool'.last.outcome = "ok" =>
                /\ ~pool.started /\ pool'.started
                /\ pool'.launched = pool.launched + PoolSize
                /\ pool'.available =
                      pool.available \o [i \in 1..PoolSize |-> pool.launched + i]
          /\ pool.started =>
                /\ pool'.last.outcome = "noop"
                /\ pool' = [pool EXCEPT !.last = pool'.last]]_vars

\* C12 witness: a second start was called on a started pool whose queue
\* holds the size instances of the first.
C12_Witness ==
    /\ pool.last = Ended_("start", "noop", {})
    /\ pool.started
    /\ pool.launched = PoolSize
    /\ Len(pool.available) = PoolSize

\* The tasks that have an instance from acquire and have not given one back.
Holding == {w \in Workers : workers[w].pc \in {"held", "closing", "launching"}}

\* C13 as stated: an instance that is held is not in the queue; whenever a
\* task leaves the scope of acquire the queue has grown by one; and after a
\* body that ended normally it is the same instance that is back, with no
\* launch.
C13_AsStated ==
    /\ [](\A w \in Holding : workers[w].browser \notin Range(pool.available))
    /\ [][\A w \in Workers :
             /\ w \in Holding /\ workers'[w].pc = "idle" =>
                   Len(pool'.available) = Len(pool.available) + 1
             /\ workers[w].pc = "held" /\ pool'.last = Ended_("release", "ok", {}) /\ workers'[w].pc = "idle" =>
                   /\ pool'.available = Append(pool.available, workers[w].browser)
                   /\ pool'.launched = pool.launched]_vars

\* C14 as stated: after the body raised, the handler calls close on the
\* instance, launches exactly one instance, appends that new instance to
\* the queue and re-raises.
C14_AsStated ==
    [][\A w \in Workers :
          /\ workers[w].pc = "closing" /\ workers'[w].pc = "launching" =>
                workers[w].browser \in pool'.last.closeCalls
          /\ workers[w].pc = "launching" /\ workers'[w].pc = "idle" =>
                /\ pool'.launched = pool.launched + 1
                /\ pool'.available = Append(pool.available, pool.launched + 1)
                /\ pool'.last.outcome = "raised:Exception"]_vars

\* The instances that are usable and are available or in use, counting a
\* task that is replacing its instance as having one.
UsableCount ==
    Cardinality({b \in Range(pool.available) : b \notin pool.gone})
      + Cardinality({w \in Workers : workers[w].pc = "held"
                                       /\ workers[w].browser \notin pool.gone})
      + Cardinality({w \in Workers : workers[w].pc \in {"closing", "launching"}})

\* C15 as stated: while the pool is started it has at least size usable
\* instances available or in use.
C15_AsStated == pool.started => UsableCount >= PoolSize

\* The instances the pool has in its list, in its queue or lent to a task,
\* that are not closed.
LiveInstances ==
    (Range(pool.browsers) \cup Range(pool.available)
        \cup {workers[w].browser : w \in Holding}) \ pool.gone

\* C16 as stated: a stop on a started pool calls close on every instance,
\* whichever closes fail, stops the driver once and leaves the pool not
\* started; a stop on a pool that is not started changes nothing.
C16_AsStated ==
    [][Called("stop") =>
          IF pool.started
          THEN /\ LiveInstances \subseteq pool'.last.closeCalls
               /\ pool'.pwStops = pool.pwStops + 1
               /\ ~pool'.started
          ELSE pool' = [pool EXCEPT !.last = Ended_("stop", "noop", {})]]_vars

\* C17: an acquire on a pool that is not started (never started, or
\* stopped) ends at once with the precondition error: the task does not
\* wait, and the queue is as it was; and only such a pool gives that error.
C17_AcquireNeedsStart ==
    [][Called("acquire") /\ (\A w \in Workers : workers[w].pc = "waiting" => workers'[w] = workers[w]) =>
          /\ ~pool.started =>
                /\ pool'.last.outcome = "RuntimeError"
                /\ workers' = workers
                /\ pool'.available = pool.available
          /\ pool'.last.outcome = "RuntimeError" => ~pool.started]_vars

\* C17 witness: acquire was refused on a stopped pool whose queue still
\* holds instances.
C17_Witness ==
    /\ pool.last = Ended_("acquire", "RuntimeError", {})
    /\ pool.pwStops >= 1
    /\ pool.available # <<>>

\* C18: no instance is held by two tasks, no instance is held and in the
\* queue, and no instance is in the queue twice.
C18_ExclusiveInstances ==
    /\ \A w1, w2 \in Holding : w1 # w2 => workers[w1].browser # workers[w2].browser
    /\ \A w \in Holding : workers[w].browser \notin Range(pool.available)
    /\ \A i, k \in 1..Len(pool.available) :
          i # k => pool.available[i] # pool.available[k]

\* C18 witness: two tasks hold instances at once, one of them replacing its
\* instance after an error, while a replacement of an earlier error is in
\* the queue.
C18_Witness ==
    /\ \E w1, w2 \in Workers :
          /\ w1 # w2
          /\ workers[w1].pc = "held"
          /\ workers[w2].pc = "launching"
    /\ pool.available # <<>>
    /\ pool.launched > PoolSize

\* C34 as stated: when the body of acquire ends by a cancellation, the
\* instance the task held, or a replacement, is put into the queue, so the
\* number of instances in the queue or in use is what it was.
C34_AsStated ==
    [][\A w \in Workers :
          /\ workers[w].pc = "held"
          /\ workers'[w].pc = "idle"
          /\ pool'.last = Ended_("release", "raised:BaseException", {})
          => /\ Len(pool'.available) = Len(pool.available) + 1
             /\ \/ pool'.available = Append(pool.available, workers[w].browser)
                \/ pool'.available = Append(pool.available, pool.launched + 1)]_vars

\* C35 as stated: a start that succeeds after a stop leaves in the queue
\* exactly the size instances it launched itself, none of them closed.
C35_AsStated ==
    [][Called("start") /\ pool.pwStops >= 1 /\ pool'.last.outcome = "ok" =>
          /\ pool'.available = [i \in 1..PoolSize |-> pool.launched + i]
          /\ Range(pool'.available) \cap pool'.gone = {}]_vars

\* C36 as stated: a stop on a started pool calls close on exactly the
\* instances the pool has that are not closed: on a replacement that is in
\* the queue or in use, and not on an instance that was closed before.
C36_AsStated ==
    [][Called("stop") /\ pool.started =>
          pool'.last.closeCalls = LiveInstances]_vars

\* C37 as stated: an instance that acquire yields to a task is not closed.
C37_AsStated ==
    [][\A w \in Workers :
          workers[w].pc \in {"idle", "waiting"} /\ workers'[w].pc = "held" =>
              workers'[w].browser \notin pool.gone]_vars

SnapshotFetched == {"snapshot", "snapshot_no_ts", "snapshot_empty", "snapshot_bad_ts"}

\* What the claim expects of a snapshot that was fetched.
SnapshotOutcome(a) ==
    ArchiveOutcome(TRUE, ARCHIVE_URL,
                   IF a = "snapshot_empty" THEN "" ELSE ARCHIVED_HTML,
                   "wayback",
                   IF a = "snapshot_no_ts" THEN NULL ELSE NOW,
                   NULL)

\* No snapshot and not aggressive: (false, "no-snapshot"), no save request.
NoSnapshotDefault ==
    res.pc = "returned" /\ res.first = "none" /\ ~res.aggressive =>
        /\ res.outcome = ArchiveOutcome(FALSE, NULL, NULL, NULL, NULL, "no-snapshot")
        /\ res.requests = <<AvailRequest(res.url)>>

\* C20 as stated: without a snapshot and not aggressive the result is
\* (false, "no-snapshot") with no save request; whenever the first check
\* found a snapshot and fetched it, the result is the successful outcome
\* with its HTML, its URL and source "wayback", aggressive or not.
C20_AsStated ==
    /\ NoSnapshotDefault
    /\ res.pc = "returned" /\ res.first \in SnapshotFetched =>
          /\ res.outcome = SnapshotOutcome(res.first)
          /\ res.requests = <<AvailRequest(res.url), ARCHIVE_URL>>

\* C20: the same, for a snapshot whose timestamp is absent or parses.
C20_SnapshotOutcome ==
    /\ NoSnapshotDefault
    /\ res.pc = "returned" /\ res.first \in SnapshotFetched \ {"snapshot_bad_ts"} =>
          /\ res.outcome = SnapshotOutcome(res.first)
          /\ res.requests = <<AvailRequest(res.url), ARCHIVE_URL>>

\* C20 witness: an aggressive call found a snapshot without a timestamp and
\* returned it without a save request.
C20_Witness ==
    /\ res.pc = "returned"
    /\ res.aggressive
    /\ res.first = "snapshot_no_ts"
    /\ res.outcome.success
    /\ res.outcome.timestamp = NULL

\* A call that was aggressive and whose first check found no snapshot.
AggressiveNoSnapshot == res.aggressive /\ res.first = "none"

\* C21 as stated: an aggressive call that finds no snapshot issues the save
\* request and returns without a poll and without a sleep, with the reason
\* "wayback-save-triggered" and a retry-after hint in its outcome.
C21_AsStated ==
    res.pc = "returned" /\ AggressiveNoSnapshot /\ res.caught = NoExc =>
        /\ res.requests = <<AvailRequest(res.url), SaveRequest(res.url)>>
        /\ res.polls = 0
        /\ res.elapsed = 0
        /\ ~res.outcome.success
        /\ res.outcome.reason = "wayback-save-triggered"
        /\ "retry_after" \in DOMAIN res.outcome

\* C22 as stated: when the save request raises, the outcome is the one of a
\* save request that succeeds, and its reason is not the error's text.
C22_AsStated ==
    res.pc = "returned" /\ res.stage = "save" =>
        /\ ~res.outcome.success
        /\ res.outcome.reason = "wayback-save-triggered"
        /\ res.outcome.reason # res.caught.msg

\* The snapshots a check can return as a successful outcome.
SnapshotReturned == {"snapshot", "snapshot_no_ts", "snapshot_empty"}

MgrCalled(op) == mgr'.last.op = op /\ mgr' # mgr

\* C24 as stated: a disconnect never raises; after it the websocket is not
\* in the job's list, every other websocket is where it was, and the lists
\* of the other jobs are as they were.
C24_AsStated ==
    [][MgrCalled("disconnect") =>
          LET j == mgr'.last.job
              ws == mgr'.last.ws
          IN  /\ mgr'.last.outcome = "ok"
              /\ ws \notin Range(ActiveOf(mgr', j))
              /\ ActiveOf(mgr', j) = SelectSeq(ActiveOf(mgr, j), LAMBDA x : x # ws)
              /\ \A k \in MgrJobs \ {j} : ActiveOf(mgr', k) = ActiveOf(mgr, k)]_vars

\* C25 as stated: a broadcast puts its event exactly once in the inbox of
\* every websocket that was in the job's list when it started and that
\* takes the message, and in no other inbox.
C25_AsStated ==
    [][MgrCalled("broadcast") =>
          LET registered == Range(ActiveOf(mgr, mgr'.last.job))
          IN  \A ws \in Sockets :
                  /\ ws \in registered \ mgr'.last.bad =>
                        Copies(mgr'.inbox[ws], mgr'.sent) = 1
                  /\ ws \notin registered => mgr'.inbox[ws] = mgr.inbox[ws]]_vars

\* C26 as stated: a broadcast in which a send raises returns normally, and
\* every other websocket of the job has the event.
C26_AsStated ==
    [][MgrCalled("broadcast") /\ mgr'.last.bad # {} =>
          /\ mgr'.last.outcome = "ok"
          /\ \A ws \in Range(mgr'.last.snapshot) \ mgr'.last.bad :
                 Copies(mgr'.inbox[ws], mgr'.sent) >= 1]_vars

(***************************************************************************)
(* Properties of get_progress, checked under SpecProgress.                 *)
(***************************************************************************)
\* The positions of the table whose row belongs to the page of the job.
JobRows == {i \in 1..Len(prog.table) :
               prog.job \in DOMAIN prog.map
                 /\ prog.table[i].wiki_page_id = prog.map[prog.job]}
TerminalRows == {i \in JobRows : prog.table[i].status \in {"scraped", "failed", "blocked"}}

\* C27: the answer for a job of the map is the fraction of the page's rows
\* that are scraped, failed or blocked, times 100, over a total that is 1
\* for a page without rows (which gives 0); it lies between 0 and 100; a
\* job that is not in the map is not found.
C27_ProgressPercent ==
    prog.pc = "answered" =>
        IF prog.job \in DOMAIN prog.map
        THEN /\ prog.answer.code = 200
             /\ prog.answer.num = Cardinality(TerminalRows) * 100
             /\ prog.answer.den = IF JobRows = {} THEN 1 ELSE Cardinality(JobRows)
             /\ JobRows = {} => prog.answer.num = 0
             /\ 0 <= prog.answer.num
             /\ prog.answer.num <= 100 * prog.answer.den
        ELSE prog.answer = JobNotFound

\* C27 witness: a page with a pending, a blocked and a failed row was
\* answered with two thirds.
C27_Witness ==
    /\ prog.pc = "answered"
    /\ Cardinality(JobRows) = 3
    /\ \E i, k, n \in JobRows :
          /\ prog.table[i].status = "pending"
          /\ prog.table[k].status = "blocked"
          /\ prog.table[n].status = "failed"
    /\ prog.answer.num = 200
    /\ prog.answer.den = 3

\* C28 as stated: whenever every row of the job's page is scraped, failed or
\* blocked, the percentage is 100, whatever the number of rows.
C28_AsStated ==
    prog.pc = "answered" /\ prog.job \in DOMAIN prog.map /\ TerminalRows = JobRows =>
        prog.answer.num = 100 * prog.answer.den

\* C28: the same, for a page that has at least one row.
C28_AllTerminalIs100 ==
    prog.pc = "answered" /\ prog.job \in DOMAIN prog.map
      /\ JobRows # {} /\ TerminalRows = JobRows =>
        prog.answer.num = 100 * prog.answer.den

\* C28 witness: three rows, one of each terminal status, answered with 100.
C28_Witness ==
    /\ prog.pc = "answered"
    /\ Cardinality(JobRows) = 3
    /\ {prog.table[i].status : i \in JobRows} = {"scraped", "failed", "blocked"}
    /\ prog.answer.num = 300
    /\ prog.answer.den = 3

(***************************************************************************)
(* Progress of a dispatched batch, checked under Spec.                     *)
(***************************************************************************)
\* The answer of GET /progress for job j on the service's state.
ProgressOf(j) == GetProgress(job_page_map, db, j)

\* A job whose request has returned and whose batch has run no step.
Dispatched(j) == jobs[j].pc = "queued"

\* C29 as stated: a progress request for a dispatched job is answered, not
\* refused as not found.
C29_AsStated == \A j \in JobIds : Dispatched(j) => ProgressOf(j).code = 200

\* C29: the same, for a job whose first reference id names a stored
\* reference; the page found is the page of that reference.
C29_ProgressAfterDispatch ==
    \A j \in JobIds :
        Dispatched(j) /\ jobs[j].ids # <<>> /\ jobs[j].ids[1] \in DOMAIN db =>
            /\ ProgressOf(j).code = 200
            /\ job_page_map[j] = db[jobs[j].ids[1]].wiki_page_id

\* C29 witness: a dispatched batch of a stored and an unknown reference is
\* answered with the rows of the page.
C29_Witness ==
    \E j \in JobIds :
        /\ Dispatched(j)
        /\ jobs[j].ids = <<1, UnknownId>>
        /\ ProgressOf(j).code = 200
        /\ ProgressOf(j).den = NumRefs

(***************************************************************************)
(* Properties of PDFService.html_to_pdf, checked under SpecRender.         *)
(***************************************************************************)
RenderEnded == pdf.pc \in {"returned", "raised"}

\* On the pooled path a page that was opened has been closed by exactly one
\* call once the call has ended, is never closed twice, and the renderer
\* has closed no browser.
PageClosedOnce ==
    pdf.pooled =>
        /\ pdf.pageCloses <= 1
        /\ RenderEnded /\ pdf.page # "none" => pdf.pageCloses = 1 /\ pdf.page = "closed"
        /\ "renderer" \notin pdf.closedBy

RenderResult ==
    IF pdf.pc = "raised" THEN "error"
    ELSE IF pdf.primary = "ok" THEN "primary" ELSE "fallback"

\* scrape where it calls html_to_pdf: the page was fetched from the live
\* URL and the raw HTML saved.
ScrapeAtRender ==
    SaveRaw(LiveFetch(BeginScrape(NewReference(1, FALSE), FALSE, "job"),
                      [connected |-> TRUE, status |-> 200]), TRUE)

\* The reference as scrape leaves it once the render has ended.
AfterRender == RenderPdf(ScrapeAtRender, RenderResult).ref

\* The render ended after an exception inside the scope of acquire.
PooledError ==
    /\ RenderEnded
    /\ pdf.pooled
    /\ pdf.primary = "raised"
    /\ pdf.stage \in {"new_page", "goto", "pdf", "close_page"}

C31_AtMostMaxConcurrent ==
    /\ Cardinality(Busy(executor)) <= max_concurrent_scrapes
    /\ executor.threads <= max_concurrent_scrapes

\* C31 witness: a batch longer than the pool is wide has as many futures
\* running as the pool has threads, and a further one waiting.
C31_Witness ==
    /\ Len(executor.ids) > max_concurrent_scrapes
    /\ Cardinality(Busy(executor)) = max_concurrent_scrapes
    /\ Queued(executor) # {}

====
